---- MODULE Spec2Model ----
(***************************************************************************)
(* Model of the simulation core of src/components/four-player-platformer.  *)
(* tsx: the level grid, the four actors, the pressure plates, the          *)
(* temporary platforms, the keyboard state, and the pause / modal / reset  *)
(* controls of the FourPlayerPlatformer component.                         *)
(*                                                                         *)
(* Numbers.  The source computes in IEEE doubles.  Here lengths are        *)
(* integers in 1/100 pixel (the source's collision epsilon is 0.01 px),    *)
(* speeds are in 1/100 pixel per second, clocks (performance.now, the      *)
(* requestAnimationFrame timestamp) are integer milliseconds, and the      *)
(* integration step dt is in 1/3000 s, so that the clamp 1/30 s is the     *)
(* integer 100.  Products that the source rounds to a double are rounded   *)
(* down to the unit.                                                       *)
(*                                                                         *)
(* Left out: particles, sound, drawing, canvas sizing, key rebinding and   *)
(* the nextStepFxTime field (presentation only; none of them is read by    *)
(* the simulation).                                                        *)
(***************************************************************************)
EXTENDS Integers, Sequences, FiniteSets, TLC

\* ------------------------------------------------------------- bounds
\* performance.now() when the component has mounted.
StartTime == 1000
\* No tick is taken past this clock value.
MaxTime == 1240
\* The time bounds of the dialog runs and of the hazard runs.
ModalMaxTime == 1110
HazardMaxTime == 1110
\* Key events (presses and releases) the environment makes in a run.
MaxKeyEvents == 4
\* The runs with jumps: the last timestamp and the key events.
\* The runs with held action keys: the last timestamp and the key events.
\* Runs with irregular callback gaps: the usual gap (ms), a stall (ms), the
\* last timestamp with an irregular gap after it, the last timestamp, and the
\* key events.
\* The exit check applied directly: the last timestamp of the run.
GateMaxTime == 1102
\* Direct calls of doEarthAction in a run, Earth standing anywhere.
AheadCalls == 2
JumpMaxTime == 1544
JumpKeyEvents == 3
EdgeMaxTime == 1170
EdgeKeyEvents == 3
GapStep == 34
StallGap == 400
GapOddUntil == 1034
GapMaxTime == 1480
GapKeyEvents == 3
\* Gaps (ms) between two host display-refresh callbacks.
Deltas == {34}
\* The dash runs: callbacks come every 34 ms up to DashFastUntil; one callback
\* can come LongGap ms after the one before it (a hidden tab), up to
\* DashMaxTime; the environment makes at most DashKeyEvents key events.
DashFastUntil == 1240
DashMaxTime == 4240
LongGap == 3000
DashKeyEvents == 5
\* The ability runs: callbacks come every 34 ms up to AbilityFastUntil, then
\* LongGap or LongerGap ms apart up to AbilityMaxTime; the environment makes at
\* most AbilityKeyEvents key events.
AbilityFastUntil == 1102
AbilityMaxTime == 9102
LongerGap == 4000
AbilityKeyEvents == 3
\* The flood runs: callbacks every 34 ms up to FloodMaxTime, at most
\* FloodKeyEvents key events.
FloodMaxTime == 1306
FloodKeyEvents == 4
\* The expiry runs: callbacks every 34 ms up to ExpiryFastUntil; one callback
\* can come SweepGap ms after the one before it, up to ExpiryMaxTime; at most
\* ExpiryKeyEvents key events.
ExpiryFastUntil == 1240
ExpiryMaxTime == 8240
SweepGap == 7000
ExpiryKeyEvents == 2
\* The call runs apply an ability function directly, CallGap ms after the call
\* before it, at most MaxCalls times (BreakCalls where Fire takes part).
CallGap == 500
MaxCalls == 15
BreakCalls == 5

\* ---------------------------------------------------------- constants
\* Sub-pixel units per pixel.
U == 100
\* dt units per second.
DtPerSec == 3000
\* dt units per millisecond.
DtPerMs == 3
TILE == 32
GRAVITY == 1800
MOVE_SPEED == 280
JUMP_SPEED == 700
MAX_FALL == 1200
FRICTION == 85
AIR_DRAG == 99
SWIM_SPEED == 180
SWIM_UP_FORCE == 1800
SWIM_MAX_UP == -260
SWIM_MAX_DOWN == 420
WATER_DRAG_X == 92
DASH_SPEED == 900
DASH_DURATION == 180
DASH_COOLDOWN == 3000
DOUBLE_TAP_WINDOW == 250
EARTH_COOLDOWN == 4000
PLATFORM_LIFETIME == 7000
MAX_PLATFORMS == 12
MAX_FILL == 2000
\* The clamp of the integration step, 1/30 s, in dt units.
DT_MAX == 100
\* Actor width and height in pixels.
PW == 22
PH == 28
\* The velocity below which horizontal speed snaps to zero (px/s).
STOP_SPEED == 6

PlayerIds == 1..4

\* A reduced level over the source's alphabet.  Like the source's map, whose
\* rows 12, 15 and 21 are one symbol shorter than row 0 (their right wall is
\* one column to the left, next to open cells of the rows above and below),
\* rows 2 and 5 are one symbol short.
LEVEL_MAP ==
  << <<"#","#","#","#","#","#","#","#","#","#","#","#","#","#">>,
     <<"#","1","#",".",".",".",".",".",".","#",".","2",".","#">>,
     <<"#","A","#","3",".",".",".",".",".","#","O","B","#">>,
     <<"#","P","#","C","n","~","4","P","D","Z","O","P","O","#">>,
     <<"#","b","#","#","#","#","#","#","#","#","#","#","#","#">>,
     <<"#","~","#","#","#","#","#","#","#","#","#","#","#">>,
     <<"#","#","#","#","#","#","#","#","#","#","#","#","#","#">> >>

\* level.h and level.w as createLevel sets them.
LevelH == Len(LEVEL_MAP)
LevelW == Len(LEVEL_MAP[1])

\* The default key bindings; Wind has no action key.
Bindings ==
  [ id \in PlayerIds |->
      CASE id = 1 -> [left |-> "a", right |-> "d", jump |-> "w", action |-> "s"]
        [] id = 2 -> [left |-> "j", right |-> "l", jump |-> "i", action |-> "k"]
        [] id = 3 -> [left |-> "ArrowLeft", right |-> "ArrowRight",
                      jump |-> "ArrowUp", action |-> "ArrowDown"]
        [] id = 4 -> [left |-> "z", right |-> "c", jump |-> "x", action |-> ""] ]

\* ---------------------------------------------------------- utilities
Min(a, b) == IF a < b THEN a ELSE b
Max(a, b) == IF a > b THEN a ELSE b
Abs(a) == IF a < 0 THEN -a ELSE a

clamp(v, lo, hi) == Max(lo, Min(hi, v))

\* a, b: [x, y, w, h]
\* An intersection test that counts rectangles touching along an edge.
rectIntersect_Closed(a, b) ==
  ~(a.x + a.w < b.x \/ a.x > b.x + b.w \/ a.y + a.h < b.y \/ a.y > b.y + b.h)

rectIntersect(a, b) ==
  ~(a.x + a.w <= b.x \/ a.x >= b.x + b.w \/ a.y + a.h <= b.y \/ a.y >= b.y + b.h)

\* x, y in 1/100 px; \div rounds down, as Math.floor does.
worldToTile(x, y) == [tx |-> x \div (TILE * U), ty |-> y \div (TILE * U)]

\* str.substring(0, index) + char + str.substring(index + 1); index is 0-based.
replaceChar(str, index, char) ==
  SubSeq(str, 1, Min(index, Len(str))) \o <<char>> \o SubSeq(str, index + 2, Len(str))

\* --------------------------------------------------- tile semantics
isSolid(ch, doorOpen) ==
  IF ch = "#" THEN TRUE
  ELSE IF ch = "Z" THEN ~doorOpen
  ELSE IF ch = "b" THEN TRUE
  ELSE IF ch = "X" THEN TRUE
  ELSE FALSE

isPlate(ch) == ch = "P"

isColoredHole(ch) == ch = "f" \/ ch = "a" \/ ch = "e" \/ ch = "n"

\* 0 stands for the source's null.
safePlayerForColoredHole(ch) ==
  CASE ch = "f" -> 1
    [] ch = "a" -> 2
    [] ch = "e" -> 3
    [] ch = "n" -> 4
    [] OTHER -> 0

isLiquidForPlayer(ch, playerId) ==
  IF ch = "W" THEN TRUE
  ELSE IF isColoredHole(ch) THEN safePlayerForColoredHole(ch) = playerId
  ELSE FALSE

\* A hazard test that spares no one in a coloured hole.
isHazardFor_Everyone(ch, playerId) ==
  IF ch = "~" THEN TRUE
  ELSE IF ch = "O" THEN TRUE
  ELSE IF isColoredHole(ch) THEN TRUE
  ELSE FALSE

isHazardFor(ch, playerId) ==
  IF ch = "~" THEN TRUE
  ELSE IF ch = "O" THEN TRUE
  ELSE IF isColoredHole(ch) THEN safePlayerForColoredHole(ch) # playerId
  ELSE FALSE

\* -------------------------------------------------------- grid access
\* A read past the end of a short row yields JavaScript's undefined.
tileAt(tiles, tx, ty) ==
  IF ty < 0 \/ ty >= LevelH \/ tx < 0 \/ tx >= LevelW THEN "#"
  ELSE IF tx + 1 > Len(tiles[ty + 1]) THEN "undefined"
  ELSE tiles[ty + 1][tx + 1]

setTile(tiles, tx, ty, ch) ==
  IF ty < 0 \/ ty >= LevelH \/ tx < 0 \/ tx >= LevelW THEN tiles
  ELSE [tiles EXCEPT ![ty + 1] = replaceChar(@, tx, ch)]

tileCharAt(tiles, x, y) == tileAt(tiles, worldToTile(x, y).tx, worldToTile(x, y).ty)

solidAt(tiles, doorOpen, x, y) == isSolid(tileCharAt(tiles, x, y), doorOpen)

\* ------------------------------------------------- level construction
\* createLevel: a copy of LEVEL_MAP, the spawn digits still in it.
createLevel == LEVEL_MAP

\* The cells of the grid in the scan order of findSpawnsAndExits.
Cells == {c \in (0..(LevelW - 1)) \X (0..(LevelH - 1)) : TRUE}

Digit(id) == CASE id = 1 -> "1" [] id = 2 -> "2" [] id = 3 -> "3" [] id = 4 -> "4"
GateChar(id) == CASE id = 1 -> "A" [] id = 2 -> "B" [] id = 3 -> "C" [] id = 4 -> "D"

\* The last cell, in scan order (rows, then columns), that holds ch; <<>> if none.
LastCellWith(tiles, ch) ==
  LET hits == {c \in Cells : tileAt(tiles, c[1], c[2]) = ch}
  IN IF hits = {} THEN <<>>
     ELSE CHOOSE c \in hits :
            \A d \in hits : d[2] < c[2] \/ (d[2] = c[2] /\ d[1] <= c[1])

\* findSpawnsAndExits: the spawn of each actor (default TILE, TILE), the exit
\* tiles of each actor, and the grid with every spawn digit replaced by ".".
findSpawns(tiles) ==
  [ id \in PlayerIds |->
      LET c == LastCellWith(tiles, Digit(id))
      IN IF c = <<>> THEN [x |-> TILE * U, y |-> TILE * U]
         ELSE [x |-> (c[1] * TILE + TILE \div 2) * U,
               y |-> (c[2] * TILE + TILE \div 2) * U] ]

findExits(tiles) ==
  [ id \in PlayerIds |->
      { [x |-> c[1] * TILE * U, y |-> c[2] * TILE * U] :
          c \in {d \in Cells : tileAt(tiles, d[1], d[2]) = GateChar(id)} } ]

stripSpawns(tiles) ==
  [ r \in 1..Len(tiles) |->
      [ i \in 1..Len(tiles[r]) |->
          IF tiles[r][i] \in {"1", "2", "3", "4"} THEN "." ELSE tiles[r][i] ] ]

\* useMemo(() => findSpawnsAndExits(levelRef.current), []): computed once.
spawns == findSpawns(createLevel)
exits == findExits(createLevel)

createPlayers ==
  [ id \in PlayerIds |->
      [ id |-> id,
        spawn |-> spawns[id],
        pos |-> spawns[id],
        vel |-> [x |-> 0, y |-> 0],
        onGround |-> FALSE,
        jumpLock |-> FALSE,
        alive |-> TRUE,
        exitReached |-> FALSE,
        facing |-> 1,
        maxAirJumps |-> 0,
        airJumpsLeft |-> 0,
        isDashing |-> FALSE,
        dashUntil |-> 0,
        dashCooldownUntil |-> 0,
        abilityCooldownUntil |-> 0 ] ]

\* initPlates: one unpressed record per "P" cell, keyed by its coordinate.
initPlates(tiles) ==
  [ c \in {d \in Cells : tileAt(tiles, d[1], d[2]) = "P"} |->
      [tx |-> c[1], ty |-> c[2], pressed |-> FALSE, pressTime |-> 0] ]

\* ------------------------------------------------------------ physics
halfW == (PW * U) \div 2
halfH == (PH * U) \div 2
TS == TILE * U

\* Displacement of a speed v (1/100 px per s) over dt (1/3000 s).
Travel(v, dt) == (v * dt) \div DtPerSec

\* v * factor, the factor given in hundredths.
Scale(v, factor) == (v * factor) \div 100

\* moveAndCollide, "Vertical collision", given the resolved nx and vel.x.
\* A vertical pass that does not clear the grounded flag first.
collideVertical_KeepGrounded(tiles, doorOpen, p, dt, nx, vx) ==
  LET ny0 == p.pos.y + Travel(p.vel.y, dt)
      hitDown == p.vel.y > 0
                 /\ (solidAt(tiles, doorOpen, nx - halfW + U, ny0 + halfH)
                     \/ solidAt(tiles, doorOpen, nx + halfW - U, ny0 + halfH))
      hitUp == p.vel.y < 0
               /\ (solidAt(tiles, doorOpen, nx - halfW + U, ny0 - halfH)
                   \/ solidAt(tiles, doorOpen, nx + halfW - U, ny0 - halfH))
      ny == IF hitDown THEN ((ny0 + halfH) \div TS) * TS - halfH - 1
            ELSE IF hitUp THEN (((ny0 - halfH) \div TS) + 1) * TS + halfH + 1
            ELSE ny0
  IN [p EXCEPT !.pos = [x |-> nx, y |-> ny],
               !.vel = [x |-> vx, y |-> IF hitDown \/ hitUp THEN 0 ELSE p.vel.y],
               !.onGround = hitDown \/ p.onGround,
               !.jumpLock = IF hitDown THEN FALSE ELSE @,
               !.airJumpsLeft = IF hitDown THEN p.maxAirJumps ELSE @]

\* A vertical pass whose landing also ends the dash cooldown.
collideVertical_LandingEndsCooldown(tiles, doorOpen, p, dt, nx, vx) ==
  LET ny0 == p.pos.y + Travel(p.vel.y, dt)
      hitDown == p.vel.y > 0
                 /\ (solidAt(tiles, doorOpen, nx - halfW + U, ny0 + halfH)
                     \/ solidAt(tiles, doorOpen, nx + halfW - U, ny0 + halfH))
      hitUp == p.vel.y < 0
               /\ (solidAt(tiles, doorOpen, nx - halfW + U, ny0 - halfH)
                   \/ solidAt(tiles, doorOpen, nx + halfW - U, ny0 - halfH))
      ny == IF hitDown THEN ((ny0 + halfH) \div TS) * TS - halfH - 1
            ELSE IF hitUp THEN (((ny0 - halfH) \div TS) + 1) * TS + halfH + 1
            ELSE ny0
  IN [p EXCEPT !.pos = [x |-> nx, y |-> ny],
               !.vel = [x |-> vx, y |-> IF hitDown \/ hitUp THEN 0 ELSE p.vel.y],
               !.onGround = hitDown,
               !.jumpLock = IF hitDown THEN FALSE ELSE @,
               !.airJumpsLeft = IF hitDown THEN p.maxAirJumps ELSE @,
               !.dashCooldownUntil = IF hitDown THEN 0 ELSE @]

collideVertical(tiles, doorOpen, p, dt, nx, vx) ==
  LET ny0 == p.pos.y + Travel(p.vel.y, dt)
      hitDown == p.vel.y > 0
                 /\ (solidAt(tiles, doorOpen, nx - halfW + U, ny0 + halfH)
                     \/ solidAt(tiles, doorOpen, nx + halfW - U, ny0 + halfH))
      hitUp == p.vel.y < 0
               /\ (solidAt(tiles, doorOpen, nx - halfW + U, ny0 - halfH)
                   \/ solidAt(tiles, doorOpen, nx + halfW - U, ny0 - halfH))
      ny == IF hitDown THEN ((ny0 + halfH) \div TS) * TS - halfH - 1
            ELSE IF hitUp THEN (((ny0 - halfH) \div TS) + 1) * TS + halfH + 1
            ELSE ny0
  IN [p EXCEPT !.pos = [x |-> nx, y |-> ny],
               !.vel = [x |-> vx, y |-> IF hitDown \/ hitUp THEN 0 ELSE p.vel.y],
               !.onGround = hitDown,
               !.jumpLock = IF hitDown THEN FALSE ELSE @,
               !.airJumpsLeft = IF hitDown THEN p.maxAirJumps ELSE @]

\* moveAndCollide: "Horizontal collision", then the vertical one.
moveAndCollide(tiles, doorOpen, p, dt) ==
  LET nx0 == p.pos.x + Travel(p.vel.x, dt)
      hitRight == p.vel.x > 0
                  /\ (solidAt(tiles, doorOpen, nx0 + halfW, p.pos.y - halfH)
                      \/ solidAt(tiles, doorOpen, nx0 + halfW, p.pos.y + halfH - U))
      hitLeft == p.vel.x < 0
                 /\ (solidAt(tiles, doorOpen, nx0 - halfW, p.pos.y - halfH)
                     \/ solidAt(tiles, doorOpen, nx0 - halfW, p.pos.y + halfH - U))
  IN collideVertical(tiles, doorOpen, p, dt,
       IF hitRight THEN ((nx0 + halfW) \div TS) * TS - halfW - 1
       ELSE IF hitLeft THEN (((nx0 - halfW) \div TS) + 1) * TS + halfW + 1
       ELSE nx0,
       IF hitRight \/ hitLeft THEN 0 ELSE p.vel.x)

\* ---------------------------------------------------------- wind dash
RECURSIVE ISqrtFrom(_, _)
ISqrtFrom(n, r) == IF (r + 1) * (r + 1) > n THEN r ELSE ISqrtFrom(n, r + 1)

\* Math.hypot(dx, dy) in thousandths, for the small integer dx, dy of a dash.
Hypot1000(dx, dy) ==
  LET n == dx * dx + dy * dy
      r == ISqrtFrom(n, 0)
  IN IF r * r = n THEN r * 1000
     ELSE CASE n = 2 -> 1414 [] n = 5 -> 2236 [] n = 8 -> 2828

\* The key the source's [left, right, jump].find(k => dtap.has(k)) returns; "" if none.
tappedKeyOf(c, dtap) ==
  IF c.left \in dtap THEN c.left
  ELSE IF c.right \in dtap THEN c.right
  ELSE IF c.jump \in dtap THEN c.jump
  ELSE ""

\* A dash that can start while the cooldown runs.
tryStartWindDash_NoCooldown(p, now, dtap, pressed) ==
  LET c == Bindings[p.id]
      tappedKey == tappedKeyOf(c, dtap)
      dx0 == (IF tappedKey = c.left THEN -1 ELSE IF tappedKey = c.right THEN 1 ELSE 0)
             + (IF c.left \in pressed THEN -1 ELSE 0)
             + (IF c.right \in pressed THEN 1 ELSE 0)
      dy0 == (IF tappedKey = c.jump THEN -1 ELSE 0)
             + (IF c.jump \in pressed THEN -1 ELSE 0)
      len == Hypot1000(dx0, dy0)
      vx == IF len = 0 THEN p.facing * DASH_SPEED * U
            ELSE (dx0 * DASH_SPEED * U * 1000) \div len
      vy == IF len = 0 THEN 0 ELSE (dy0 * DASH_SPEED * U * 1000) \div len
  IN IF p.id # 4 THEN [p |-> p, dtap |-> dtap]
     ELSE IF p.isDashing THEN [p |-> p, dtap |-> dtap]
     ELSE IF tappedKey = "" THEN [p |-> p, dtap |-> dtap]
     ELSE [p |-> [p EXCEPT !.isDashing = TRUE,
                           !.dashUntil = now + DASH_DURATION,
                           !.dashCooldownUntil = now + DASH_COOLDOWN,
                           !.vel = [x |-> vx, y |-> vy]],
           dtap |-> dtap \ {tappedKey}]

\* A dash whose direction comes from the tapped key alone.
tryStartWindDash_TapOnly(p, now, dtap, pressed) ==
  LET c == Bindings[p.id]
      tappedKey == tappedKeyOf(c, dtap)
      dx0 == (IF tappedKey = c.left THEN -1 ELSE IF tappedKey = c.right THEN 1 ELSE 0)
      dy0 == (IF tappedKey = c.jump THEN -1 ELSE 0)
      len == Hypot1000(dx0, dy0)
      vx == IF len = 0 THEN p.facing * DASH_SPEED * U
            ELSE (dx0 * DASH_SPEED * U * 1000) \div len
      vy == IF len = 0 THEN 0 ELSE (dy0 * DASH_SPEED * U * 1000) \div len
  IN IF p.id # 4 THEN [p |-> p, dtap |-> dtap]
     ELSE IF now < p.dashCooldownUntil
       THEN [p |-> p, dtap |-> dtap \ {c.left, c.right, c.jump}]
     ELSE IF p.isDashing THEN [p |-> p, dtap |-> dtap]
     ELSE IF tappedKey = "" THEN [p |-> p, dtap |-> dtap]
     ELSE [p |-> [p EXCEPT !.isDashing = TRUE,
                           !.dashUntil = now + DASH_DURATION,
                           !.dashCooldownUntil = now + DASH_COOLDOWN,
                           !.vel = [x |-> vx, y |-> vy]],
           dtap |-> dtap \ {tappedKey}]

\* Returns [p, dtap]: the actor and the double-tap set after the call.
tryStartWindDash(p, now, dtap, pressed) ==
  LET c == Bindings[p.id]
      tappedKey == tappedKeyOf(c, dtap)
      dx0 == (IF tappedKey = c.left THEN -1 ELSE IF tappedKey = c.right THEN 1 ELSE 0)
             + (IF c.left \in pressed THEN -1 ELSE 0)
             + (IF c.right \in pressed THEN 1 ELSE 0)
      dy0 == (IF tappedKey = c.jump THEN -1 ELSE 0)
             + (IF c.jump \in pressed THEN -1 ELSE 0)
      len == Hypot1000(dx0, dy0)
      vx == IF len = 0 THEN p.facing * DASH_SPEED * U
            ELSE (dx0 * DASH_SPEED * U * 1000) \div len
      vy == IF len = 0 THEN 0 ELSE (dy0 * DASH_SPEED * U * 1000) \div len
  IN IF p.id # 4 THEN [p |-> p, dtap |-> dtap]
     ELSE IF now < p.dashCooldownUntil
       THEN [p |-> p, dtap |-> dtap \ {c.left, c.right, c.jump}]
     ELSE IF p.isDashing THEN [p |-> p, dtap |-> dtap]
     ELSE IF tappedKey = "" THEN [p |-> p, dtap |-> dtap]
     ELSE [p |-> [p EXCEPT !.isDashing = TRUE,
                           !.dashUntil = now + DASH_DURATION,
                           !.dashCooldownUntil = now + DASH_COOLDOWN,
                           !.vel = [x |-> vx, y |-> vy]],
           dtap |-> dtap \ {tappedKey}]

\* updatePlayer, "Wind dash": end an elapsed dash, then try to start one.
windDashStep(p, now, dtap, pressed) ==
  IF p.id # 4 THEN [p |-> p, dtap |-> dtap]
  ELSE LET q == IF p.isDashing /\ now >= p.dashUntil
                THEN [p EXCEPT !.isDashing = FALSE] ELSE p
       IN IF ~q.isDashing THEN tryStartWindDash(q, now, dtap, pressed)
          ELSE [p |-> q, dtap |-> dtap]

\* ----------------------------------------------------------- movement
\* Input and friction that also act on a dashing actor.
horizontalInput_DuringDash(p, leftDown, rightDown, inLiquid) ==
  LET speed == (IF inLiquid THEN SWIM_SPEED ELSE MOVE_SPEED) * U
      damped == IF p.onGround /\ ~inLiquid THEN Scale(p.vel.x, FRICTION)
                ELSE Scale(p.vel.x, IF inLiquid THEN WATER_DRAG_X ELSE AIR_DRAG)
  IN IF leftDown /\ ~rightDown
       THEN [p EXCEPT !.vel.x = -speed, !.facing = -1]
     ELSE IF rightDown /\ ~leftDown
       THEN [p EXCEPT !.vel.x = speed, !.facing = 1]
     ELSE [p EXCEPT !.vel.x = IF Abs(damped) < STOP_SPEED * U THEN 0 ELSE damped]

\* updatePlayer, "Horizontal movement".
horizontalInput(p, leftDown, rightDown, inLiquid) ==
  IF p.isDashing THEN p
  ELSE LET speed == (IF inLiquid THEN SWIM_SPEED ELSE MOVE_SPEED) * U
           damped == IF p.onGround /\ ~inLiquid THEN Scale(p.vel.x, FRICTION)
                     ELSE Scale(p.vel.x, IF inLiquid THEN WATER_DRAG_X ELSE AIR_DRAG)
       IN IF leftDown /\ ~rightDown
            THEN [p EXCEPT !.vel.x = -speed, !.facing = -1]
          ELSE IF rightDown /\ ~leftDown
            THEN [p EXCEPT !.vel.x = speed, !.facing = 1]
          ELSE [p EXCEPT !.vel.x = IF Abs(damped) < STOP_SPEED * U THEN 0 ELSE damped]

\* updatePlayer, "Vertical physics".  GRAVITY * dt in 1/100 px per s is
\* GRAVITY * U * dt / DtPerSec.
verticalPhysics(p, jumpDown, inLiquid, dt) ==
  IF p.isDashing THEN p
  ELSE IF inLiquid
    THEN LET v1 == p.vel.y + (GRAVITY * U * 15 * dt) \div (100 * DtPerSec)
             v2 == IF jumpDown THEN v1 - (SWIM_UP_FORCE * U * dt) \div DtPerSec ELSE v1
         IN [p EXCEPT !.vel.y = clamp(v2, SWIM_MAX_UP * U, SWIM_MAX_DOWN * U)]
  ELSE [p EXCEPT !.vel.y =
          clamp(p.vel.y + (GRAVITY * U * dt) \div DtPerSec, -JUMP_SPEED * U, MAX_FALL * U)]

\* updatePlayer, "Jump (on land)".
\* A jump that sets no jump lock.
jumpStep_NoLock(p, jumpDown, inLiquid) ==
  IF p.isDashing \/ inLiquid THEN p
  ELSE LET q == IF jumpDown /\ p.onGround /\ ~p.jumpLock
                  THEN [p EXCEPT !.vel.y = -JUMP_SPEED * U, !.onGround = FALSE]
                ELSE IF jumpDown /\ ~p.onGround /\ p.airJumpsLeft > 0
                  THEN [p EXCEPT !.vel.y = -Scale(JUMP_SPEED * U, 90),
                                 !.airJumpsLeft = @ - 1]
                ELSE p
       IN IF ~jumpDown /\ q.onGround THEN [q EXCEPT !.jumpLock = FALSE] ELSE q

jumpStep(p, jumpDown, inLiquid) ==
  IF p.isDashing \/ inLiquid THEN p
  ELSE LET q == IF jumpDown /\ p.onGround /\ ~p.jumpLock
                  THEN [p EXCEPT !.vel.y = -JUMP_SPEED * U,
                                 !.onGround = FALSE, !.jumpLock = TRUE]
                ELSE IF jumpDown /\ ~p.onGround /\ p.airJumpsLeft > 0
                  THEN [p EXCEPT !.vel.y = -Scale(JUMP_SPEED * U, 90),
                                 !.airJumpsLeft = @ - 1]
                ELSE p
       IN IF ~jumpDown /\ q.onGround THEN [q EXCEPT !.jumpLock = FALSE] ELSE q

\* ---------------------------------------------------------- abilities
\* One candidate of doFireAction's loop.
fireBreak(tiles, c) ==
  IF tileAt(tiles, c[1], c[2]) \in {"b", "X"} THEN setTile(tiles, c[1], c[2], ".")
  ELSE tiles

\* A Fire action that leaves the registry alone.
doFireAction_KeepRegistry(tiles, temps, p) ==
  LET a == worldToTile(p.pos.x + p.facing * (halfW + 4 * U), p.pos.y)
      o == worldToTile(p.pos.x, p.pos.y)
      t1 == fireBreak(tiles, <<a.tx, a.ty>>)
      t2 == fireBreak(t1, <<o.tx, o.ty>>)
      t3 == fireBreak(t2, <<o.tx, o.ty + 1>>)
      t4 == fireBreak(t3, <<o.tx, o.ty - 1>>)
  IN [tiles |-> t4, temps |-> temps]

\* Returns [tiles, temps].
doFireAction(tiles, temps, p) ==
  LET a == worldToTile(p.pos.x + p.facing * (halfW + 4 * U), p.pos.y)
      o == worldToTile(p.pos.x, p.pos.y)
      t1 == fireBreak(tiles, <<a.tx, a.ty>>)
      t2 == fireBreak(t1, <<o.tx, o.ty>>)
      t3 == fireBreak(t2, <<o.tx, o.ty + 1>>)
      t4 == fireBreak(t3, <<o.tx, o.ty - 1>>)
  IN [tiles |-> t4,
      temps |-> SelectSeq(temps, LAMBDA tp : tileAt(t4, tp.tx, tp.ty) = "X")]

\* The 3x3 window of doWaterAction in its loop order (dy outer, dx inner).
Window3 == << <<-1, -1>>, <<0, -1>>, <<1, -1>>, <<-1, 0>>, <<0, 0>>, <<1, 0>>,
              <<-1, 1>>, <<0, 1>>, <<1, 1>> >>
dirs8 == << <<-1, -1>>, <<0, -1>>, <<1, -1>>, <<-1, 0>>, <<1, 0>>,
            <<-1, 1>>, <<0, 1>>, <<1, 1>> >>

\* A neighbour loop that enqueues every dark-hole neighbour, seen or not.
RECURSIVE pushNeighbours_NoSeen(_, _, _, _, _)
pushNeighbours_NoSeen(tiles, c, q, seen, i) ==
  IF i > Len(dirs8) THEN [q |-> q, seen |-> seen]
  ELSE LET n == <<c[1] + dirs8[i][1], c[2] + dirs8[i][2]>>
       IN IF tileAt(tiles, n[1], n[2]) = "O"
            THEN pushNeighbours_NoSeen(tiles, c, Append(q, n), seen \cup {n}, i + 1)
          ELSE pushNeighbours_NoSeen(tiles, c, q, seen, i + 1)

\* The neighbours of c the fill enqueues: dark holes not yet seen, in dirs8 order.
RECURSIVE pushNeighbours(_, _, _, _, _)
pushNeighbours(tiles, c, q, seen, i) ==
  IF i > Len(dirs8) THEN [q |-> q, seen |-> seen]
  ELSE LET n == <<c[1] + dirs8[i][1], c[2] + dirs8[i][2]>>
       IN IF n \notin seen /\ tileAt(tiles, n[1], n[2]) = "O"
            THEN pushNeighbours(tiles, c, Append(q, n), seen \cup {n}, i + 1)
          ELSE pushNeighbours(tiles, c, q, seen, i + 1)

\* The while loop of doWaterAction; returns the grid.
RECURSIVE floodFill(_, _, _, _)
floodFill(tiles, q, seen, convertedCount) ==
  IF q = <<>> \/ convertedCount >= MAX_FILL THEN tiles
  ELSE LET c == Head(q)
       IN IF tileAt(tiles, c[1], c[2]) # "O"
            THEN floodFill(tiles, Tail(q), seen, convertedCount)
          ELSE LET t1 == setTile(tiles, c[1], c[2], "W")
                   r == pushNeighbours(t1, c, Tail(q), seen, 1)
               IN floodFill(t1, r.q, r.seen, convertedCount + 1)

\* A flood that converts the seeds only.
doWaterAction_SeedsOnly(tiles, p) ==
  LET start == worldToTile(p.pos.x, p.pos.y)
      cand == [i \in 1..Len(Window3) |->
                 <<start.tx + Window3[i][1], start.ty + Window3[i][2]>>]
      seeds == SelectSeq(cand, LAMBDA c : tileAt(tiles, c[1], c[2]) = "O")
  IN IF seeds = <<>> THEN tiles
     ELSE floodFill(tiles, seeds, {seeds[i] : i \in 1..Len(seeds)},
                    MAX_FILL - Len(seeds))

doWaterAction(tiles, p) ==
  LET start == worldToTile(p.pos.x, p.pos.y)
      cand == [i \in 1..Len(Window3) |->
                 <<start.tx + Window3[i][1], start.ty + Window3[i][2]>>]
      seeds == SelectSeq(cand, LAMBDA c : tileAt(tiles, c[1], c[2]) = "O")
  IN IF seeds = <<>> THEN tiles
     ELSE floodFill(tiles, seeds, {seeds[i] : i \in 1..Len(seeds)}, 0)

\* A placement test that also accepts a poison pool.
canPlace_Poison(tiles, tx, ty) ==
  LET ch == tileAt(tiles, tx, ty)
  IN ch = "." \/ ch = "O" \/ ch = "W" \/ isColoredHole(ch) \/ ch = "~"

canPlace(tiles, tx, ty) ==
  LET ch == tileAt(tiles, tx, ty)
  IN ch = "." \/ ch = "O" \/ ch = "W" \/ isColoredHole(ch)

\* A placement that never evicts.
doEarthAction_NoEviction(tiles, temps, p, now) ==
  LET under == worldToTile(p.pos.x, p.pos.y + halfH + 4 * U)
      ahead == worldToTile(p.pos.x + p.facing * (halfW + 8 * U), p.pos.y)
      at == IF canPlace(tiles, under.tx, under.ty) THEN <<under>>
            ELSE IF canPlace(tiles, ahead.tx, ahead.ty) THEN <<ahead>>
            ELSE <<>>
  IN IF at = <<>> THEN [tiles |-> tiles, temps |-> temps, placed |-> FALSE]
     ELSE [tiles |-> setTile(tiles, at[1].tx, at[1].ty, "X"),
           temps |-> Append(temps, [tx |-> at[1].tx, ty |-> at[1].ty,
                                    expiresAt |-> now + PLATFORM_LIFETIME]),
           placed |-> TRUE]

\* Returns [tiles, temps, placed].
\* A placement that tries the cell ahead before the cell beneath.
doEarthAction_AheadFirst(tiles, temps, p, now) ==
  LET under == worldToTile(p.pos.x, p.pos.y + halfH + 4 * U)
      ahead == worldToTile(p.pos.x + p.facing * (halfW + 8 * U), p.pos.y)
      at == IF canPlace(tiles, ahead.tx, ahead.ty) THEN <<ahead>>
            ELSE IF canPlace(tiles, under.tx, under.ty) THEN <<under>>
            ELSE <<>>
  IN IF at = <<>> THEN [tiles |-> tiles, temps |-> temps, placed |-> FALSE]
     ELSE LET t1 == setTile(tiles, at[1].tx, at[1].ty, "X")
              q1 == Append(temps, [tx |-> at[1].tx, ty |-> at[1].ty,
                                   expiresAt |-> now + PLATFORM_LIFETIME])
          IN IF Len(q1) > MAX_PLATFORMS
               THEN [tiles |-> setTile(t1, Head(q1).tx, Head(q1).ty, "."),
                     temps |-> Tail(q1), placed |-> TRUE]
             ELSE [tiles |-> t1, temps |-> q1, placed |-> TRUE]

doEarthAction(tiles, temps, p, now) ==
  LET under == worldToTile(p.pos.x, p.pos.y + halfH + 4 * U)
      ahead == worldToTile(p.pos.x + p.facing * (halfW + 8 * U), p.pos.y)
      at == IF canPlace(tiles, under.tx, under.ty) THEN <<under>>
            ELSE IF canPlace(tiles, ahead.tx, ahead.ty) THEN <<ahead>>
            ELSE <<>>
  IN IF at = <<>> THEN [tiles |-> tiles, temps |-> temps, placed |-> FALSE]
     ELSE LET t1 == setTile(tiles, at[1].tx, at[1].ty, "X")
              q1 == Append(temps, [tx |-> at[1].tx, ty |-> at[1].ty,
                                   expiresAt |-> now + PLATFORM_LIFETIME])
          IN IF Len(q1) > MAX_PLATFORMS
               THEN [tiles |-> setTile(t1, Head(q1).tx, Head(q1).ty, "."),
                     temps |-> Tail(q1), placed |-> TRUE]
             ELSE [tiles |-> t1, temps |-> q1, placed |-> TRUE]

\* A sweep that keeps an entry at the instant of its expiry.
RECURSIVE expireSweep_Strict(_, _, _, _)
expireSweep_Strict(tiles, temps, remaining, now) ==
  IF temps = <<>> THEN [tiles |-> tiles, temps |-> remaining]
  ELSE LET tp == Head(temps)
       IN IF now > tp.expiresAt
            THEN expireSweep_Strict(IF tileAt(tiles, tp.tx, tp.ty) = "X"
                                      THEN setTile(tiles, tp.tx, tp.ty, ".") ELSE tiles,
                                    Tail(temps), remaining, now)
          ELSE expireSweep_Strict(tiles, Tail(temps), Append(remaining, tp), now)

\* loop, "Expire temporary platforms"; returns [tiles, temps].
RECURSIVE expireSweep(_, _, _, _)
expireSweep(tiles, temps, remaining, now) ==
  IF temps = <<>> THEN [tiles |-> tiles, temps |-> remaining]
  ELSE LET tp == Head(temps)
       IN IF now >= tp.expiresAt
            THEN expireSweep(IF tileAt(tiles, tp.tx, tp.ty) = "X"
                               THEN setTile(tiles, tp.tx, tp.ty, ".") ELSE tiles,
                             Tail(temps), remaining, now)
          ELSE expireSweep(tiles, Tail(temps), Append(remaining, tp), now)

\* ------------------------------------------------------ plates, door
\* One candidate of pressPlateIfStanding's loop.
pressAt(tiles, plates, c, now) ==
  IF tileAt(tiles, c.tx, c.ty) = "P" /\ <<c.tx, c.ty>> \in DOMAIN plates
     /\ ~plates[<<c.tx, c.ty>>].pressed
    THEN [plates EXCEPT ![<<c.tx, c.ty>>].pressed = TRUE,
                        ![<<c.tx, c.ty>>].pressTime = now]
  ELSE plates

\* A press that looks at the centre tile only.
pressPlateIfStanding_CentreOnly(tiles, plates, p, now) ==
  pressAt(tiles, plates, worldToTile(p.pos.x, p.pos.y), now)

\* A plate that holds only while the actor is on it.
pressPlateIfStanding_Held(tiles, plates, p, now) ==
  LET center == worldToTile(p.pos.x, p.pos.y)
      feet == worldToTile(p.pos.x, p.pos.y + halfH + 2 * U)
      on == {<<center.tx, center.ty>>, <<feet.tx, feet.ty>>}
  IN [k \in DOMAIN plates |->
        IF k \in on /\ ~plates[k].pressed
          THEN [plates[k] EXCEPT !.pressed = TRUE, !.pressTime = now]
        ELSE IF k \in on THEN plates[k]
        ELSE [plates[k] EXCEPT !.pressed = FALSE]]

pressPlateIfStanding(tiles, plates, p, now) ==
  LET center == worldToTile(p.pos.x, p.pos.y)
      feet == worldToTile(p.pos.x, p.pos.y + halfH + 2 * U)
  IN pressAt(tiles, pressAt(tiles, plates, center, now), feet, now)

\* The actors whose feet sample point is on a plate tile.
onPlates(tiles, players) ==
  {id \in PlayerIds :
     isPlate(tileCharAt(tiles, players[id].pos.x, players[id].pos.y + halfH + U))}

\* A door that needs more than two actors on plates.
updateDoorOpen_MoreThanTwo(tiles, players) == Cardinality(onPlates(tiles, players)) > 2

updateDoorOpen(tiles, players) == Cardinality(onPlates(tiles, players)) >= 2

\* ------------------------------------------------------ actor update
\* updatePlayer, the hazard branch: back to the spawn point.
\* A respawn that keeps the velocity.
respawn_KeepVelocity(p) ==
  [p EXCEPT !.pos = p.spawn,
            !.alive = TRUE,
            !.exitReached = FALSE,
            !.airJumpsLeft = p.maxAirJumps,
            !.isDashing = FALSE,
            !.dashUntil = 0]

\* A respawn that leaves the dash running.
respawn_KeepDash(p) ==
  [p EXCEPT !.pos = p.spawn,
            !.vel = [x |-> 0, y |-> 0],
            !.alive = TRUE,
            !.exitReached = FALSE,
            !.airJumpsLeft = p.maxAirJumps]

respawn(p) ==
  [p EXCEPT !.pos = p.spawn,
            !.vel = [x |-> 0, y |-> 0],
            !.alive = TRUE,
            !.exitReached = FALSE,
            !.airJumpsLeft = p.maxAirJumps,
            !.isDashing = FALSE,
            !.dashUntil = 0]

\* updatePlayer, "Exit check": the actor's rectangle meets one of its exits.
atOwnExit(p) ==
  \E ex \in exits[p.id] :
    rectIntersect([x |-> p.pos.x - halfW, y |-> p.pos.y - halfH, w |-> PW * U, h |-> PH * U],
                  [x |-> ex.x, y |-> ex.y, w |-> TS, h |-> TS])

\* An ability dispatch in which Earth's action has no cooldown.
abilityStep_NoCooldown(tiles, temps, p, now) ==
  IF p.id = 1
    THEN LET r == doFireAction(tiles, temps, p)
         IN [tiles |-> r.tiles, temps |-> r.temps, p |-> p]
  ELSE IF p.id = 2
    THEN [tiles |-> doWaterAction(tiles, p), temps |-> temps, p |-> p]
  ELSE IF p.id = 3
    THEN LET r == doEarthAction(tiles, temps, p, now)
         IN [tiles |-> r.tiles, temps |-> r.temps,
             p |-> IF r.placed
                     THEN [p EXCEPT !.abilityCooldownUntil = now + EARTH_COOLDOWN]
                   ELSE p]
  ELSE [tiles |-> tiles, temps |-> temps, p |-> p]

\* An ability dispatch that arms Earth's cooldown whether or not a platform
\* was placed.
abilityStep_AlwaysArm(tiles, temps, p, now) ==
  IF p.id = 1
    THEN LET r == doFireAction(tiles, temps, p)
         IN [tiles |-> r.tiles, temps |-> r.temps, p |-> p]
  ELSE IF p.id = 2
    THEN [tiles |-> doWaterAction(tiles, p), temps |-> temps, p |-> p]
  ELSE IF p.id = 3 /\ now >= p.abilityCooldownUntil
    THEN LET r == doEarthAction(tiles, temps, p, now)
         IN [tiles |-> r.tiles, temps |-> r.temps,
             p |-> [p EXCEPT !.abilityCooldownUntil = now + EARTH_COOLDOWN]]
  ELSE [tiles |-> tiles, temps |-> temps, p |-> p]

\* updatePlayer, "Abilities": returns [tiles, temps, p].
abilityStep(tiles, temps, p, now) ==
  IF p.id = 1
    THEN LET r == doFireAction(tiles, temps, p)
         IN [tiles |-> r.tiles, temps |-> r.temps, p |-> p]
  ELSE IF p.id = 2
    THEN [tiles |-> doWaterAction(tiles, p), temps |-> temps, p |-> p]
  ELSE IF p.id = 3 /\ now >= p.abilityCooldownUntil
    THEN LET r == doEarthAction(tiles, temps, p, now)
         IN [tiles |-> r.tiles, temps |-> r.temps,
             p |-> IF r.placed
                     THEN [p EXCEPT !.abilityCooldownUntil = now + EARTH_COOLDOWN]
                   ELSE p]
  ELSE [tiles |-> tiles, temps |-> temps, p |-> p]

\* updatePlayer from "Horizontal movement" to "Jump (on land)", given the
\* result d = [p, dtap] of the wind-dash step: the actor moveAndCollide receives.
movePlayerInput(d, dt, leftDown, rightDown, jumpDown, inLiquid) ==
  jumpStep(verticalPhysics(horizontalInput(d.p, leftDown, rightDown, inLiquid),
                           jumpDown, inLiquid, dt),
           jumpDown, inLiquid)

\* updatePlayer from "Horizontal movement" to moveAndCollide.
movePlayer(tiles, doorOpen, d, dt, leftDown, rightDown, jumpDown, inLiquid) ==
  moveAndCollide(tiles, doorOpen,
                 movePlayerInput(d, dt, leftDown, rightDown, jumpDown, inLiquid), dt)

\* updatePlayer, "Hazard check", on the actor p4 as moved; centerChar is the
\* symbol that was read at the actor's centre before it moved.
hazardContact(tiles, p4, centerChar) ==
  isHazardFor(centerChar, p4.id)
  \/ isHazardFor(tileCharAt(tiles, p4.pos.x, p4.pos.y + halfH + 2 * U), p4.id)

\* updatePlayer from the ability dispatch to the exit check; a = [tiles, temps, p].
finishPlayer(w, id, a, plates1, dtap1, actionDown, hit) ==
  [tiles |-> a.tiles,
   players |-> [w.players EXCEPT ![id] = [a.p EXCEPT !.exitReached = atOwnExit(a.p)]],
   plates |-> plates1,
   temps |-> a.temps,
   prev |-> [w.prev EXCEPT ![id] = actionDown],
   dtap |-> dtap1,
   deaths |-> IF hit THEN w.deaths + 1 ELSE w.deaths,
   hits |-> IF hit THEN w.hits \cup {id} ELSE w.hits]

\* updatePlayer from "Plate press check" on, p4 being the actor as moved.
\* An update that dispatches the ability for as long as the key is held.
settlePlayer_WhileHeld(w, id, now, p4, dtap1, centerChar, actionDown, hit) ==
  finishPlayer(w, id,
    IF actionDown
      THEN abilityStep(w.tiles, w.temps, IF hit THEN respawn(p4) ELSE p4, now)
    ELSE [tiles |-> w.tiles, temps |-> w.temps, p |-> IF hit THEN respawn(p4) ELSE p4],
    pressPlateIfStanding(w.tiles, w.plates, p4, now),
    dtap1, actionDown, hit)

settlePlayer(w, id, now, p4, dtap1, centerChar, actionDown, hit) ==
  finishPlayer(w, id,
    IF actionDown /\ ~w.prev[id]
      THEN abilityStep(w.tiles, w.temps, IF hit THEN respawn(p4) ELSE p4, now)
    ELSE [tiles |-> w.tiles, temps |-> w.temps, p |-> IF hit THEN respawn(p4) ELSE p4],
    pressPlateIfStanding(w.tiles, w.plates, p4, now),
    dtap1, actionDown, hit)

\* updatePlayer from moveAndCollide on: p4 is the actor as moved.
stepPlayer(w, id, now, d, actionDown, centerChar, p4) ==
  settlePlayer(w, id, now, p4, d.dtap, centerChar, actionDown,
               hazardContact(w.tiles, p4, centerChar))

\* updatePlayer after the liquid test and the wind-dash step d = [p, dtap].
controlsDown(w, id, now, dt, doorOpen, keys, centerChar, d) ==
  stepPlayer(w, id, now, d,
    IF Bindings[id].action # "" THEN Bindings[id].action \in keys ELSE FALSE,
    centerChar,
    movePlayer(w.tiles, doorOpen, d, dt,
               Bindings[id].left \in keys, Bindings[id].right \in keys,
               Bindings[id].jump \in keys, isLiquidForPlayer(centerChar, id)))

\* updatePlayer(level, p, dt) on the world record
\*   w = [tiles, players, plates, temps, prev, dtap, deaths, hits],
\* where hits collects the actors whose update took the hazard branch.
updatePlayer(w, id, now, dt, doorOpen, keys) ==
  controlsDown(w, id, now, dt, doorOpen, keys,
    tileCharAt(w.tiles, w.players[id].pos.x, w.players[id].pos.y),
    windDashStep(w.players[id], now, w.dtap, keys))

\* loop, "Win condition".
\* A win test that looks at the gates only.
winCondition_GatesOnly(players, plates) ==
  \A id \in PlayerIds : players[id].exitReached

winCondition(players, plates) ==
  (\A id \in PlayerIds : players[id].exitReached)
  /\ (\A k \in DOMAIN plates : plates[k].pressed)

\* A loop that simulates after the win.
simulates_IgnoreWon(isPaused, isWon) == ~isPaused

\* loop: whether this callback runs the simulation.
\* A loop that simulates while paused.
simulates_IgnorePause(isPaused, isWon) == ~isWon

simulates(isPaused, isWon) == ~isPaused /\ ~isWon

\* loop: const dt = clamp((t - last) / 1000, 0, 1 / 30), last = lastTimeRef.current || t.
\* A step with no upper clamp.
stepOf_Unclamped(t, lastTimeRef) ==
  LET last == IF lastTimeRef = 0 THEN t ELSE lastTimeRef
  IN Max(0, (t - last) * DtPerMs)

stepOf(t, lastTimeRef) ==
  LET last == IF lastTimeRef = 0 THEN t ELSE lastTimeRef
  IN clamp((t - last) * DtPerMs, 0, DT_MAX)

\* loop, the body of "if (!paused && !won)" up to the win test:
\* expiry sweep, door, the four actor updates in order.
simulateFrom(w0, now, dt, keys, door) ==
  [w |-> updatePlayer(updatePlayer(updatePlayer(updatePlayer(
           w0, 1, now, dt, door, keys), 2, now, dt, door, keys),
           3, now, dt, door, keys), 4, now, dt, door, keys),
   doorOpen |-> door]

sweepThen(w, now, dt, keys, s) ==
  simulateFrom([w EXCEPT !.tiles = s.tiles, !.temps = s.temps, !.hits = {}],
               now, dt, keys, updateDoorOpen(s.tiles, w.players))

\* A tick that sweeps after the actor updates.
simulate_SweepLast(w, now, dt, keys) ==
  LET r == simulateFrom([w EXCEPT !.hits = {}], now, dt, keys,
                        updateDoorOpen(w.tiles, w.players))
      s == expireSweep(r.w.tiles, r.w.temps, <<>>, now)
  IN [w |-> [r.w EXCEPT !.tiles = s.tiles, !.temps = s.temps], doorOpen |-> r.doorOpen]

simulate(w, now, dt, keys) ==
  sweepThen(w, now, dt, keys, expireSweep(w.tiles, w.temps, <<>>, now))

\* -------------------------------------------------------------- state
VARIABLES
  now,                \* performance.now(), ms
  lastTime,           \* lastTimeRef.current
  tiles,              \* levelRef.current.tiles
  doorOpen,           \* levelRef.current.doorOpen
  players,            \* playersRef.current
  plates,             \* platesRef.current
  tempPlatforms,      \* tempPlatformsRef.current
  prevActionDown,     \* prevActionDownRef.current
  pressed,            \* useKeySet: pressed
  lastDown,           \* useKeySet: lastDown (0 for a key never pressed)
  doubleTap,          \* useKeySet: doubleTap
  paused, won, deaths,
  modalCount,         \* modalCountRef.current
  pausedBeforeModal,  \* pausedBeforeModalRef.current
  showSettings, showHelp,
  lastOp,             \* observation: the handler that ran last
  hazardHit,          \* observation: actors respawned by the last simulated tick
  pausedAtOpen,       \* observation: paused when the first modal opened
  pauseInput,         \* observation: pause toggled, game reset or won while a modal is open
  keyEvents,          \* observation: key events so far
  resetFrom,          \* observation: what the last handler, if resetGame, found
  tapAt,              \* observation: when each key's double tap was last recorded
  dashStarts,         \* observation: the times Wind started a dash since the last reset
  abilityUse,         \* observation: what each actor's ability dispatch did in the last tick
  placements,         \* observation: the cells Earth placed platforms at since the last reset
  calls,              \* observation: direct calls of the ability functions so far
  changed,            \* observation: the cells whose symbol the last tick or call changed
  heldBefore,         \* observation: the action keys held at the last simulated tick,
                      \*   and "r" if the game was reset after it
  probe               \* a symbol and an actor, and what the liquid and hazard tests say of them

simVars == <<tiles, doorOpen, players, plates, tempPlatforms, prevActionDown,
             doubleTap, won, deaths>>
keyVars == <<pressed, lastDown, doubleTap>>
modalVars == <<modalCount, pausedBeforeModal, showSettings, showHelp>>
obsVars == <<hazardHit, pausedAtOpen, pauseInput, keyEvents, resetFrom, tapAt, dashStarts,
            abilityUse, placements, calls, changed, heldBefore, probe>>
vars == <<now, lastTime, tiles, doorOpen, players, plates, tempPlatforms,
          prevActionDown, pressed, lastDown, doubleTap, paused, won, deaths,
          modalCount, pausedBeforeModal, showSettings, showHelp,
          lastOp, hazardHit, pausedAtOpen, pauseInput, keyEvents, resetFrom,
          tapAt, dashStarts, abilityUse, placements, calls, changed, heldBefore, probe>>

\* The keys bound to an ability.
ActionKeys == {Bindings[id].action : id \in PlayerIds} \ {""}

AllKeys == UNION {{Bindings[id].left, Bindings[id].right, Bindings[id].jump,
                   Bindings[id].action} : id \in PlayerIds} \ {""}

\* The grid in use when play begins: createLevel, then findSpawnsAndExits
\* has replaced the spawn digits.
sessionTiles == stripSpawns(createLevel)

\* The cells that hold different symbols in the grids t0 and t1.
CellsChanged(t0, t1) == {c \in Cells : tileAt(t0, c[1], c[2]) # tileAt(t1, c[1], c[2])}

\* No actor's update reached the ability dispatch.
NoUse == [id \in PlayerIds |-> "none"]

\* What resetGame found: how dirty the state it replaced was.
NoReset == [deaths |-> 0, pressed |-> 0, temps |-> 0, moved |-> FALSE,
            won |-> FALSE, paused |-> FALSE, dashed |-> FALSE]

\* No symbol is being classified.
NoProbe == [ch |-> ".", id |-> 1, done |-> FALSE, liquid |-> FALSE, hazard |-> FALSE]

\* The state after construction, but for the probe.
InitWorld ==
  /\ now = StartTime
  /\ lastTime = StartTime
  /\ tiles = sessionTiles
  /\ doorOpen = FALSE
  /\ players = createPlayers
  /\ plates = initPlates(sessionTiles)
  /\ tempPlatforms = <<>>
  /\ prevActionDown = [id \in PlayerIds |-> FALSE]
  /\ pressed = {}
  /\ lastDown = [k \in AllKeys |-> 0]
  /\ doubleTap = {}
  /\ paused = FALSE
  /\ won = FALSE
  /\ deaths = 0
  /\ modalCount = 0
  /\ pausedBeforeModal = FALSE
  /\ showSettings = FALSE
  /\ showHelp = FALSE
  /\ lastOp = "init"
  /\ hazardHit = {}
  /\ pausedAtOpen = FALSE
  /\ pauseInput = FALSE
  /\ keyEvents = 0
  /\ resetFrom = NoReset
  /\ tapAt = [k \in AllKeys |-> 0]
  /\ dashStarts = <<>>
  /\ abilityUse = NoUse
  /\ placements = <<>>
  /\ calls = 0
  /\ changed = {}
  /\ heldBefore = {}

Init == InitWorld /\ probe = NoProbe

\* ------------------------------------------------------------ actions
\* loop: store the simulated world, then "Win condition".
applyTick(r) ==
  /\ tiles' = r.w.tiles
  /\ doorOpen' = r.doorOpen
  /\ players' = r.w.players
  /\ plates' = r.w.plates
  /\ tempPlatforms' = r.w.temps
  /\ prevActionDown' = r.w.prev
  /\ doubleTap' = r.w.dtap
  /\ deaths' = r.w.deaths
  /\ hazardHit' = r.w.hits
  /\ dashStarts' = IF r.w.players[4].dashCooldownUntil # players[4].dashCooldownUntil
                      THEN Append(dashStarts, r.w.players[4].dashCooldownUntil - DASH_COOLDOWN)
                    ELSE dashStarts
  /\ abilityUse' = [id \in PlayerIds |->
       IF ~(Bindings[id].action \in pressed /\ ~prevActionDown[id]) THEN "none"
       ELSE IF id # 3 THEN "used"
       ELSE IF r.w.players[3].abilityCooldownUntil # players[3].abilityCooldownUntil
         THEN "placed"
       ELSE IF now' < players[3].abilityCooldownUntil THEN "cooldown"
       ELSE "failed"]
  /\ placements' =
       IF Len(r.w.temps) > 0
          /\ r.w.temps[Len(r.w.temps)].expiresAt = now' + PLATFORM_LIFETIME
         THEN Append(placements, <<r.w.temps[Len(r.w.temps)].tx,
                                   r.w.temps[Len(r.w.temps)].ty>>)
       ELSE placements
  /\ changed' = CellsChanged(tiles, r.w.tiles)
  /\ heldBefore' = pressed \cap ActionKeys
  /\ won' = (won \/ winCondition(r.w.players, r.w.plates))
  /\ paused' = (paused \/ winCondition(r.w.players, r.w.plates))
  /\ pauseInput' = (pauseInput \/ (modalCount > 0 /\ winCondition(r.w.players, r.w.plates)))

\* One requestAnimationFrame callback, d ms after the previous one.
TickTo(d, horizon) ==
  /\ now + d <= horizon
  /\ now' = now + d
  /\ lastTime' = now + d
  /\ lastOp' = "tick"
  /\ resetFrom' = NoReset
  /\ IF simulates(paused, won)
       THEN applyTick(simulate([tiles |-> tiles, players |-> players, plates |-> plates,
                                temps |-> tempPlatforms, prev |-> prevActionDown,
                                dtap |-> doubleTap, deaths |-> deaths, hits |-> {}],
                               now + d, stepOf(now + d, lastTime), pressed))
       ELSE /\ UNCHANGED <<tiles, doorOpen, players, plates, tempPlatforms,
                           prevActionDown, doubleTap, deaths, won, paused, pauseInput,
                           dashStarts>>
            /\ hazardHit' = {}
            /\ abilityUse' = NoUse
            /\ changed' = {}
            /\ UNCHANGED <<placements, heldBefore>>
  /\ UNCHANGED <<pressed, lastDown, modalVars, pausedAtOpen, keyEvents, tapAt, calls,
               probe>>

\* useKeySet, onDown for a key that is not auto-repeating; the environment
\* makes at most maxEvents key events.
KeyDownTo(k, maxEvents) ==
  /\ k \notin pressed
  /\ keyEvents < maxEvents
  /\ keyEvents' = keyEvents + 1
  /\ doubleTap' = IF now - lastDown[k] <= DOUBLE_TAP_WINDOW
                    THEN doubleTap \cup {k} ELSE doubleTap
  /\ tapAt' = IF now - lastDown[k] <= DOUBLE_TAP_WINDOW
                 THEN [tapAt EXCEPT ![k] = now] ELSE tapAt
  /\ lastDown' = [lastDown EXCEPT ![k] = now]
  /\ pressed' = pressed \cup {k}
  /\ lastOp' = "keydown"
  /\ resetFrom' = NoReset
  /\ UNCHANGED <<now, lastTime, tiles, doorOpen, players, plates, tempPlatforms,
                 prevActionDown, paused, won, deaths, modalVars,
                 hazardHit, pausedAtOpen, pauseInput, dashStarts, abilityUse,
                 placements, calls, changed, heldBefore, probe>>

KeyDown(k) == KeyDownTo(k, MaxKeyEvents)

\* useKeySet, onUp.
KeyUpTo(k, maxEvents) ==
  /\ k \in pressed
  /\ keyEvents < maxEvents
  /\ keyEvents' = keyEvents + 1
  /\ pressed' = pressed \ {k}
  /\ lastOp' = "keyup"
  /\ resetFrom' = NoReset
  /\ UNCHANGED <<now, lastTime, tiles, doorOpen, players, plates, tempPlatforms,
                 prevActionDown, lastDown, doubleTap, paused, won, deaths,
                 modalVars, hazardHit, pausedAtOpen, pauseInput, tapAt, dashStarts,
                 abilityUse, placements, calls, changed, heldBefore, probe>>

KeyUp(k) == KeyUpTo(k, MaxKeyEvents)

\* The P / Esc key handler and the pause button: setPaused((p) => !p).
TogglePause ==
  /\ paused' = ~paused
  /\ pauseInput' = (pauseInput \/ modalCount > 0)
  /\ lastOp' = "toggle"
  /\ resetFrom' = NoReset
  /\ UNCHANGED <<now, lastTime, tiles, doorOpen, players, plates, tempPlatforms,
                 prevActionDown, keyVars, won, deaths, modalVars,
                 hazardHit, pausedAtOpen, keyEvents, tapAt, dashStarts, abilityUse,
                 placements, calls, changed, heldBefore, probe>>

\* A reset that forgets the death counter.
ResetGame_KeepDeaths ==
  /\ tiles' = createLevel
  /\ doorOpen' = FALSE
  /\ tempPlatforms' = <<>>
  /\ plates' = initPlates(createLevel)
  /\ players' = createPlayers
  /\ prevActionDown' = [id \in PlayerIds |-> FALSE]
  /\ won' = FALSE
  /\ paused' = FALSE
  /\ lastTime' = now
  /\ pauseInput' = (pauseInput \/ modalCount > 0)
  /\ lastOp' = "reset"
  /\ resetFrom' = [deaths |-> deaths,
                   pressed |-> Cardinality({k \in DOMAIN plates : plates[k].pressed}),
                   temps |-> Len(tempPlatforms),
                   moved |-> \E id \in PlayerIds : players[id].pos # players[id].spawn,
                   won |-> won, paused |-> paused,
                   dashed |-> \E id \in PlayerIds : players[id].dashCooldownUntil > now]
  /\ dashStarts' = <<>>
  /\ abilityUse' = NoUse
  /\ placements' = <<>>
  /\ heldBefore' = heldBefore \cup {"r"}
  /\ UNCHANGED <<calls, changed, probe>>
  /\ UNCHANGED <<now, keyVars, modalVars, hazardHit, pausedAtOpen, keyEvents, deaths, tapAt>>

\* resetGame (the R key and the reset button).
ResetGame ==
  /\ tiles' = createLevel
  /\ doorOpen' = FALSE
  /\ tempPlatforms' = <<>>
  /\ plates' = initPlates(createLevel)
  /\ players' = createPlayers
  /\ prevActionDown' = [id \in PlayerIds |-> FALSE]
  /\ won' = FALSE
  /\ deaths' = 0
  /\ paused' = FALSE
  /\ lastTime' = now
  /\ pauseInput' = (pauseInput \/ modalCount > 0)
  /\ lastOp' = "reset"
  /\ resetFrom' = [deaths |-> deaths,
                   pressed |-> Cardinality({k \in DOMAIN plates : plates[k].pressed}),
                   temps |-> Len(tempPlatforms),
                   moved |-> \E id \in PlayerIds : players[id].pos # players[id].spawn,
                   won |-> won, paused |-> paused,
                   dashed |-> \E id \in PlayerIds : players[id].dashCooldownUntil > now]
  /\ dashStarts' = <<>>
  /\ abilityUse' = NoUse
  /\ placements' = <<>>
  /\ heldBefore' = heldBefore \cup {"r"}
  /\ UNCHANGED <<calls, changed, probe>>
  /\ UNCHANGED <<now, keyVars, modalVars, hazardHit, pausedAtOpen, keyEvents, tapAt>>

\* The value of `paused` that handleModalOpenChange reads: the callback is
\* memoised with an empty dependency list, so it keeps the closure of the
\* first render, in which paused is useState's initial value.
pausedSeenByModalHandler == FALSE

\* handleModalOpenChange(next, which).
handleModalOpenChange(next, which) ==
  LET prevCount == modalCount
      nextCount == prevCount + (IF next THEN 1 ELSE -1)
      opening == next /\ prevCount = 0
      closing == ~next /\ nextCount = 0
  IN /\ modalCount' = nextCount
     /\ pausedBeforeModal' = IF opening THEN pausedSeenByModalHandler
                             ELSE pausedBeforeModal
     /\ paused' = IF closing THEN pausedBeforeModal'
                  ELSE IF opening THEN TRUE ELSE paused
     /\ showSettings' = IF which = "settings" THEN next ELSE showSettings
     /\ showHelp' = IF which = "help" THEN next ELSE showHelp
     /\ pausedAtOpen' = IF opening THEN paused ELSE pausedAtOpen
     /\ pauseInput' = IF opening THEN FALSE ELSE pauseInput
     /\ lastOp' = IF next THEN "open" ELSE "close"
     /\ resetFrom' = NoReset
     /\ UNCHANGED <<now, lastTime, tiles, doorOpen, players, plates, tempPlatforms,
                    prevActionDown, keyVars, won, deaths, hazardHit, keyEvents, tapAt,
                    dashStarts, abilityUse, placements, calls, changed, heldBefore, probe>>

\* A dialog asks to open (its trigger) or to close (Esc, its close button).
OpenModal(which) ==
  /\ ~(IF which = "settings" THEN showSettings ELSE showHelp)
  /\ handleModalOpenChange(TRUE, which)

CloseModal(which) ==
  /\ (IF which = "settings" THEN showSettings ELSE showHelp)
  /\ handleModalOpenChange(FALSE, which)

Modals == {"settings", "help"}

\* One callback within the model's time bound.
Tick(d) == TickTo(d, MaxTime)

\* The keys the environment presses: Wind's right key.
PlayKeys == {"c"}

Next ==
  \/ \E d \in Deltas : Tick(d)
  \/ \E k \in PlayKeys : KeyDown(k)
  \/ \E k \in PlayKeys : KeyUp(k)
  \/ TogglePause
  \/ ResetGame

Spec == Init /\ [][Next]_vars

\* Pause, reset and the two dialogs, no actor key.
NextModal ==
  \/ \E d \in Deltas : TickTo(d, ModalMaxTime)
  \/ TogglePause
  \/ ResetGame
  \/ \E m \in Modals : OpenModal(m)
  \/ \E m \in Modals : CloseModal(m)

SpecModal == Init /\ [][NextModal]_vars

\* Water's left key, Wind's left, jump and right keys, and the reset, over
\* a short run.
HazardKeys == {"j", "z", "x", "c"}

NextHazard ==
  \/ \E d \in Deltas : TickTo(d, HazardMaxTime)
  \/ \E k \in HazardKeys : KeyDown(k)
  \/ \E k \in HazardKeys : KeyUp(k)
  \/ ResetGame

SpecHazard == Init /\ [][NextHazard]_vars

\* Wind's left and right keys; callbacks every 34 ms at first,
\* then at most one long gap.
DashKeys == {"z", "c"}

NextDash ==
  \/ \E d \in Deltas : TickTo(d, DashFastUntil)
  \/ TickTo(LongGap, DashMaxTime)
  \/ \E k \in DashKeys : KeyDownTo(k, DashKeyEvents)
  \/ \E k \in DashKeys : KeyUpTo(k, DashKeyEvents)

SpecDash == Init /\ [][NextDash]_vars

\* Earth's action and left keys; callbacks every 34 ms at first, then
\* seconds apart.
AbilityKeys == {"ArrowDown", "ArrowLeft"}

NextAbility ==
  \/ \E d \in Deltas : TickTo(d, AbilityFastUntil)
  \/ \E d \in {LongGap, LongerGap} : TickTo(d, AbilityMaxTime)
  \/ \E k \in AbilityKeys : KeyDownTo(k, AbilityKeyEvents)
  \/ \E k \in AbilityKeys : KeyUpTo(k, AbilityKeyEvents)

SpecAbility == Init /\ [][NextAbility]_vars

\* Water's action and right keys; callbacks every 34 ms.
FloodKeys == {"k", "l"}

NextFlood ==
  \/ \E d \in Deltas : TickTo(d, FloodMaxTime)
  \/ \E k \in FloodKeys : KeyDownTo(k, FloodKeyEvents)
  \/ \E k \in FloodKeys : KeyUpTo(k, FloodKeyEvents)

SpecFlood == Init /\ [][NextFlood]_vars

\* Earth's action key, Wind's right key (the way to the win) and the pause
\* key; callbacks every 34 ms at first, then one after a platform's lifetime.
ExpiryKeys == {"ArrowDown", "c"}

NextExpiry ==
  \/ \E d \in Deltas : TickTo(d, ExpiryFastUntil)
  \/ TickTo(SweepGap, ExpiryMaxTime)
  \/ \E k \in ExpiryKeys : KeyDownTo(k, ExpiryKeyEvents)
  \/ \E k \in ExpiryKeys : KeyUpTo(k, ExpiryKeyEvents)
  \/ TogglePause

SpecExpiry == Init /\ [][NextExpiry]_vars

\* Water's left key and Wind's right key. Callbacks come 34 ms apart; early
\* in the run, before the first key event, a callback can also come with the
\* same timestamp as the last one, with an earlier one, or after a stall far
\* above the 1/30 s clamp.
GapKeys == {"j", "c"}

OddGaps == {0, 0 - GapStep, StallGap}

\* One callback whose timestamp is d ms after the previous one (d may be
\* zero or negative); timestamps stay within [StartTime, GapMaxTime].
GapTick(d) ==
  /\ now + d >= StartTime
  /\ d # GapStep => now <= GapOddUntil /\ keyEvents = 0
  /\ TickTo(d, GapMaxTime)

NextGap ==
  \/ GapTick(GapStep)
  \/ \E d \in OddGaps : GapTick(d)
  \/ \E k \in GapKeys : KeyDownTo(k, GapKeyEvents)
  \/ \E k \in GapKeys : KeyUpTo(k, GapKeyEvents)

SpecGap == Init /\ [][NextGap]_vars

\* Water's and Earth's action keys, with pause and reset; callbacks every 34 ms.
EdgeKeys == {"k", "ArrowDown"}

NextEdge ==
  \/ \E d \in Deltas : TickTo(d, EdgeMaxTime)
  \/ \E k \in EdgeKeys : KeyDownTo(k, EdgeKeyEvents)
  \/ \E k \in EdgeKeys : KeyUpTo(k, EdgeKeyEvents)
  \/ TogglePause
  \/ ResetGame

SpecEdge == Init /\ [][NextEdge]_vars

\* Wind's jump and left keys; callbacks every 34 ms, long enough for a jump
\* from the floor to come down again.
JumpKeys == {"x", "z"}

NextJump ==
  \/ \E d \in Deltas : TickTo(d, JumpMaxTime)
  \/ \E k \in JumpKeys : KeyDownTo(k, JumpKeyEvents)
  \/ \E k \in JumpKeys : KeyUpTo(k, JumpKeyEvents)

SpecJump == Init /\ [][NextJump]_vars

\* ------------------------------------------------------- symbol runs
\* The symbols a tile read can return: those of LEVEL_MAP, the two the
\* abilities write, and the value read past the end of a short row.
Alphabet == {"#", ".", "1", "2", "3", "4", "A", "B", "C", "D", "P", "Z", "b",
             "O", "~", "f", "a", "e", "n", "X", "W", "undefined"}

worldVars == <<now, lastTime, tiles, doorOpen, players, plates, tempPlatforms,
               prevActionDown, pressed, lastDown, doubleTap, paused, won, deaths,
               modalCount, pausedBeforeModal, showSettings, showHelp,
               lastOp, hazardHit, pausedAtOpen, pauseInput, keyEvents, resetFrom,
               tapAt, dashStarts, abilityUse, placements, calls, changed, heldBefore>>

\* Any symbol and any actor.
InitSymbols ==
  /\ InitWorld
  /\ probe \in {[ch |-> ch, id |-> id, done |-> FALSE, liquid |-> FALSE,
                  hazard |-> FALSE] : ch \in Alphabet, id \in PlayerIds}

\* isLiquidForPlayer(ch, id) and isHazardFor(ch, id), as updatePlayer asks them.
Classify ==
  /\ ~probe.done
  /\ probe' = [probe EXCEPT !.done = TRUE,
                            !.liquid = isLiquidForPlayer(probe.ch, probe.id),
                            !.hazard = isHazardFor(probe.ch, probe.id)]
  /\ UNCHANGED worldVars

SpecSymbols == InitSymbols /\ [][Classify]_vars

\* ---------------------------------------------------------- call runs
\* The ability functions applied directly to the session's grid and
\* registry, for the registry sizes and the platform / Fire encounters that
\* the small map does not let the actors walk to. The actor stands at the
\* centre of a cell of the middle room.
EarthStands == << <<3, 2>>, <<4, 2>>, <<5, 2>>, <<6, 2>>, <<7, 2>>, <<8, 2>>,
                  <<8, 1>>, <<7, 1>>, <<6, 1>>, <<5, 1>>, <<4, 1>>, <<3, 1>> >>
\* Fire stands at a cell's centre or 5 px from it towards the side it faces.
FireStands == {<<1, 3>>, <<4, 2>>, <<5, 1>>}
FireOffsets == {0, 5 * U}

centreOf(c) == [x |-> c[1] * TS + TS \div 2, y |-> c[2] * TS + TS \div 2]

\* Where along EarthStands the actor p is.
standOf(p) == CHOOSE i \in 1..Len(EarthStands) : centreOf(EarthStands[i]) = p.pos

\* doEarthAction(level, p) for the Earth actor p.
EarthCallAt(p, maxCalls) ==
  /\ calls < maxCalls
  /\ tiles' = doEarthAction(tiles, tempPlatforms, p, now + CallGap).tiles
  /\ tempPlatforms' = doEarthAction(tiles, tempPlatforms, p, now + CallGap).temps
  /\ players' = [players EXCEPT ![3] = p]
  /\ placements' = IF Len(tempPlatforms') > 0
                       /\ tempPlatforms'[Len(tempPlatforms')].expiresAt
                            = now + CallGap + PLATFORM_LIFETIME
                      THEN Append(placements, <<tempPlatforms'[Len(tempPlatforms')].tx,
                                                tempPlatforms'[Len(tempPlatforms')].ty>>)
                    ELSE placements
  /\ now' = now + CallGap
  /\ calls' = calls + 1
  /\ lastOp' = "earth"
  /\ resetFrom' = NoReset
  /\ UNCHANGED <<lastTime, doorOpen, plates, prevActionDown, keyVars, paused, won,
                 deaths, modalVars, hazardHit, pausedAtOpen, pauseInput, keyEvents,
                 tapAt, dashStarts, abilityUse, probe>>
  /\ changed' = CellsChanged(tiles, tiles')
  /\ UNCHANGED heldBefore

\* doEarthAction(level, p) for Earth at stand i facing f; Earth walks the
\* stands in order.
EarthCallTo(i, f, maxCalls) ==
  /\ i \in 1..Len(EarthStands)
  /\ i \in {standOf(players[3]), standOf(players[3]) + 1}
  /\ EarthCallAt([players[3] EXCEPT !.pos = centreOf(EarthStands[i]), !.facing = f],
                 maxCalls)

\* Earth in cell c facing f, back px behind the cell's centre and up px above it.
earthAt(c, f, back, up) ==
  [players[3] EXCEPT !.pos = [x |-> centreOf(c).x - f * back, y |-> centreOf(c).y - up],
                     !.facing = f]

\* Where Fire is in a direct call: in cell c, off px from its centre towards f.
fireAt(c, f, off) ==
  [players[1] EXCEPT !.pos = [x |-> centreOf(c).x + f * off, y |-> centreOf(c).y],
                     !.facing = f]

\* doFireAction(level, p) for Fire in cell c facing f.
FireCallTo(c, f, off, maxCalls) ==
  /\ calls < maxCalls
  /\ tiles' = doFireAction(tiles, tempPlatforms, fireAt(c, f, off)).tiles
  /\ tempPlatforms' = doFireAction(tiles, tempPlatforms, fireAt(c, f, off)).temps
  /\ players' = [players EXCEPT ![1] = fireAt(c, f, off)]
  /\ now' = now + CallGap
  /\ calls' = calls + 1
  /\ lastOp' = "fire"
  /\ resetFrom' = NoReset
  /\ UNCHANGED <<lastTime, doorOpen, plates, prevActionDown, keyVars, paused, won,
                 deaths, modalVars, hazardHit, pausedAtOpen, pauseInput, keyEvents,
                 tapAt, dashStarts, abilityUse, placements, probe>>
  /\ changed' = CellsChanged(tiles, tiles')
  /\ UNCHANGED heldBefore

Facings == {-1, 1}

\* Earth faces the way it walks: right along row 2, left along row 1.
walkFacing(i) == IF EarthStands[i][2] = 2 THEN 1 ELSE -1

NextPlace ==
  \E i \in 1..Len(EarthStands) : EarthCallTo(i, walkFacing(i), MaxCalls)

SpecPlace == Init /\ [][NextPlace]_vars

NextBreak ==
  \/ \E i \in 1..Len(EarthStands), f \in Facings : EarthCallTo(i, f, BreakCalls)
  \/ \E c \in FireStands, f \in Facings, off \in FireOffsets :
       FireCallTo(c, f, off, BreakCalls)

SpecBreak == Init /\ [][NextBreak]_vars

\* doEarthAction called with Earth anywhere in the two lower rows of the
\* middle room: at a cell's centre, 5 px behind it, 4 px above it, or both.
AheadStands == {<<x, y>> : x \in 3..8, y \in 2..3}
BackOffsets == {0, 5 * U}
UpOffsets == {0, 4 * U}

NextAhead ==
  \E c \in AheadStands, f \in Facings, back \in BackOffsets, up \in UpOffsets :
    EarthCallAt(earthAt(c, f, back, up), AheadCalls)

SpecAhead == Init /\ [][NextAhead]_vars

\* The exit check of updatePlayer applied to an actor put next to a gate:
\* along each axis its rectangle ends where the gate begins, overlaps it by
\* 0.01 px at either end, is centred on it, or begins where the gate ends. Callbacks
\* follow every 34 ms.
GateCells == {c \in Cells : tileAt(sessionTiles, c[1], c[2]) \in {"A", "B", "C", "D"}}

besideGate(c, half) ==
  {c * TS - half, c * TS - half + 1, c * TS + TS \div 2, c * TS + TS + half - 1,
   c * TS + TS + half}

\* The actor p with its centre at (x, y) has no corner in a solid tile.
fitsAt(p, x, y) ==
  \A cx \in {x - halfW, x + halfW - 1}, cy \in {y - halfH, y + halfH - 1} :
    ~solidAt(tiles, doorOpen, cx, cy)

\* updatePlayer, "Exit check", for actor id at (x, y); once in a run.
ExitCallAt(id, x, y) ==
  /\ calls = 0
  /\ fitsAt(players[id], x, y)
  /\ players' = [players EXCEPT
       ![id] = [players[id] EXCEPT
                  !.pos = [x |-> x, y |-> y],
                  !.exitReached = atOwnExit([players[id] EXCEPT !.pos = [x |-> x, y |-> y]])]]
  /\ calls' = calls + 1
  /\ lastOp' = "exit"
  /\ resetFrom' = NoReset
  /\ UNCHANGED <<now, lastTime, tiles, doorOpen, plates, tempPlatforms, prevActionDown,
                 keyVars, paused, won, deaths, modalVars, hazardHit, pausedAtOpen,
                 pauseInput, keyEvents, tapAt, dashStarts, abilityUse, placements,
                 changed, heldBefore, probe>>

NextGate ==
  \/ \E id \in PlayerIds, c \in GateCells :
       \E x \in besideGate(c[1], halfW), y \in besideGate(c[2], halfH) : ExitCallAt(id, x, y)
  \/ \E d \in Deltas : TickTo(d, GateMaxTime)

SpecGate == Init /\ [][NextGate]_vars

\* Wind's three keys; three callbacks of 34 ms.
DirMaxTime == 1102
DirKeyEvents == 5
DirKeys == {"z", "c", "x"}

NextDir ==
  \/ \E d \in Deltas : TickTo(d, DirMaxTime)
  \/ \E k \in DirKeys : KeyDownTo(k, DirKeyEvents)
  \/ \E k \in DirKeys : KeyUpTo(k, DirKeyEvents)

SpecDir == Init /\ [][NextDir]_vars

\* ---------------------------------------------------------- fill runs
\* doWaterAction applied to any grid that has dark holes in any cells of the
\* middle room besides the session's own, with Water at the centre of any
\* cell of the room.
HoleRoom == (4..7) \X (1..2)
FillStands == (3..8) \X (1..2)

\* The session's grid with dark holes in the cells of S.
dugGrid(S) ==
  [y \in 1..Len(sessionTiles) |->
     [x \in 1..Len(sessionTiles[y]) |->
        IF <<x - 1, y - 1>> \in S THEN "O" ELSE sessionTiles[y][x]]]

\* The while loop of doWaterAction with its bookkeeping: the grid, every
\* tile put on the queue in order (enq), convertedCount, the iterations made
\* (steps) and the queue at the end (left).
RECURSIVE floodTrace(_, _, _, _, _, _)
floodTrace(t, q, seen, convertedCount, enq, steps) ==
  IF q = <<>> \/ convertedCount >= MAX_FILL
    THEN [tiles |-> t, enq |-> enq, converted |-> convertedCount,
          steps |-> steps, left |-> q]
  ELSE LET c == Head(q)
       IN IF tileAt(t, c[1], c[2]) # "O"
            THEN floodTrace(t, Tail(q), seen, convertedCount, enq, steps + 1)
          ELSE LET t1 == setTile(t, c[1], c[2], "W")
                   r == pushNeighbours(t1, c, Tail(q), seen, 1)
               IN floodTrace(t1, r.q, r.seen, convertedCount + 1,
                             enq \o SubSeq(r.q, Len(q), Len(r.q)), steps + 1)

\* doWaterAction with the bookkeeping of its loop.
waterTrace(t, p) ==
  LET start == worldToTile(p.pos.x, p.pos.y)
      cand == [i \in 1..Len(Window3) |->
                 <<start.tx + Window3[i][1], start.ty + Window3[i][2]>>]
      seeds == SelectSeq(cand, LAMBDA c : tileAt(t, c[1], c[2]) = "O")
  IN IF seeds = <<>>
       THEN [tiles |-> t, enq |-> <<>>, converted |-> 0, steps |-> 0, left |-> <<>>]
     ELSE floodTrace(t, seeds, {seeds[i] : i \in 1..Len(seeds)}, 0, seeds, 0)

\* Water at the centre of cell c.
waterAt(c) == [players[2] EXCEPT !.pos = centreOf(c)]

InitFill ==
  /\ InitWorld
  /\ probe \in {[grid |-> dugGrid(S), at |-> c, done |-> FALSE,
                  tiles |-> dugGrid(S),
                  trace |-> [tiles |-> dugGrid(S), enq |-> <<>>, converted |-> 0,
                             steps |-> 0, left |-> <<>>]] :
                  S \in SUBSET HoleRoom, c \in FillStands}

\* doWaterAction(level, p) on the probe's grid.
FillCall ==
  /\ ~probe.done
  /\ probe' = [probe EXCEPT !.done = TRUE,
                            !.tiles = doWaterAction(probe.grid, waterAt(probe.at)),
                            !.trace = waterTrace(probe.grid, waterAt(probe.at))]
  /\ UNCHANGED worldVars

SpecFill == InitFill /\ [][FillCall]_vars

\* Earth's action and jump keys. Callbacks come in bursts 34 ms apart, with
\* a stall of 4 s after each burst.
CapBurst == 102
CapMaxTime == 9204
CapKeyEvents == 6
CapKeys == {"ArrowDown", "ArrowUp"}

\* The time since the current burst began.
sinceStall == (now - StartTime) % (LongerGap + CapBurst)

NextCap ==
  \/ \E d \in Deltas : sinceStall < CapBurst /\ TickTo(d, CapMaxTime)
  \/ sinceStall >= CapBurst /\ TickTo(LongerGap, CapMaxTime)
  \/ \E k \in CapKeys : KeyDownTo(k, CapKeyEvents)
  \/ \E k \in CapKeys : KeyUpTo(k, CapKeyEvents)

SpecCap == Init /\ [][NextCap]_vars

\* --------------------------------------------------------- frame runs
\* The three abilities applied directly, the sweep of a callback that comes
\* a platform's lifetime later, and reset, in any order.
FrameCalls == 3
FrameMaxTime == 9500
FrameEarthStands == {<<4, 2>>, <<5, 2>>, <<10, 1>>}
FrameFireStands == {<<1, 3>>, <<4, 2>>}
WaterStands == {<<11, 1>>, <<11, 3>>}

\* doWaterAction(level, p) for Water at the centre of cell c.
WaterCallTo(c, maxCalls) ==
  /\ calls < maxCalls
  /\ tiles' = doWaterAction(tiles, waterAt(c))
  /\ players' = [players EXCEPT ![2] = waterAt(c)]
  /\ now' = now + CallGap
  /\ calls' = calls + 1
  /\ lastOp' = "water"
  /\ resetFrom' = NoReset
  /\ changed' = CellsChanged(tiles, tiles')
  /\ UNCHANGED <<lastTime, doorOpen, plates, tempPlatforms, prevActionDown, keyVars,
                 paused, won, deaths, modalVars, hazardHit, pausedAtOpen, pauseInput,
                 keyEvents, tapAt, dashStarts, abilityUse, placements, heldBefore, probe>>

NextFrame ==
  \/ \E c \in FrameEarthStands : EarthCallAt(earthAt(c, 1, 0, 0), FrameCalls)
  \/ \E c \in FrameFireStands, f \in Facings : FireCallTo(c, f, 0, FrameCalls)
  \/ \E c \in WaterStands : WaterCallTo(c, FrameCalls)
  \/ TickTo(SweepGap, FrameMaxTime)
  \/ ResetGame

SpecFrame == Init /\ [][NextFrame]_vars

\* Wind's right key (the way to the win) and callbacks every 34 ms; once the
\* game is won, the pause key or button, the two dialogs and reset.
WonMaxTime == 1272
WonKeyEvents == 2

NextWon ==
  \/ \E d \in Deltas : TickTo(d, WonMaxTime)
  \/ \E k \in PlayKeys : KeyDownTo(k, WonKeyEvents)
  \/ \E k \in PlayKeys : KeyUpTo(k, WonKeyEvents)
  \/ won /\ TogglePause
  \/ \E m \in Modals : won /\ OpenModal(m)
  \/ \E m \in Modals : CloseModal(m)
  \/ won /\ ResetGame

SpecWon == Init /\ [][NextWon]_vars

\* ------------------------------------------------------------ properties
AllAtGates(ps) == \A id \in PlayerIds : atOwnExit(ps[id])
AllPressed(pl) == \A k \in DOMAIN pl : pl[k].pressed

\* The tiles an actor touches for the plate press: centre and feet sample.
TouchedTiles(p) ==
  {<<worldToTile(p.pos.x, p.pos.y).tx, worldToTile(p.pos.x, p.pos.y).ty>>,
   <<worldToTile(p.pos.x, p.pos.y + halfH + 2 * U).tx,
     worldToTile(p.pos.x, p.pos.y + halfH + 2 * U).ty>>}

\* C1: a callback that runs while the game is not paused leaves the game won
\* exactly when, after it, every actor's rectangle overlaps one of its own
\* gates and every plate is pressed; the game is never won while a plate is
\* unpressed or an actor is off its gate.
C1_WinIffGatesAndPlates ==
  /\ [](won => AllAtGates(players) /\ AllPressed(plates))
  /\ [][(lastOp' = "tick" /\ ~paused)
          => (won' <=> (AllAtGates(players') /\ AllPressed(plates')))]_vars

\* The callback that wins the game has just run.
C1_Witness ==
  lastOp = "tick" /\ won /\ AllAtGates(players) /\ AllPressed(plates)

\* C2: no step other than a reset turns a pressed plate into an unpressed
\* one, whether or not an actor is still on it.
C2_PlateLatch ==
  [][lastOp' # "reset"
       => \A k \in DOMAIN plates :
            plates[k].pressed => (k \in DOMAIN plates' /\ plates'[k].pressed)]_vars

\* A plate is pressed and no actor touches it any more.
C2_Witness ==
  /\ lastOp = "tick"
  /\ \E k \in DOMAIN plates :
       plates[k].pressed /\ \A id \in PlayerIds : k \notin TouchedTiles(players[id])

C4_PauseRestored ==
  (lastOp = "close" /\ modalCount = 0 /\ ~pauseInput) => (paused = pausedAtOpen)

\* C5: right after a reset every actor is at its spawn point with zero
\* velocity, no dash and no cooldown pending, every plate is unpressed, the
\* platform registry is empty, the death counter is zero and the game is
\* neither won nor paused.
C5_ResetState ==
  lastOp = "reset" =>
    /\ \A id \in PlayerIds :
         /\ players[id].pos = spawns[id]
         /\ players[id].vel = [x |-> 0, y |-> 0]
         /\ ~players[id].isDashing
         /\ players[id].dashUntil <= now
         /\ players[id].dashCooldownUntil <= now
         /\ players[id].abilityCooldownUntil <= now
    /\ \A k \in DOMAIN plates : ~plates[k].pressed
    /\ tempPlatforms = <<>>
    /\ deaths = 0
    /\ ~won
    /\ ~paused

\* A reset has just replaced a state with a death counted, a plate pressed,
\* an actor away from its spawn point and a dash cooldown running.
C5_Witness ==
  /\ lastOp = "reset"
  /\ resetFrom.deaths > 0
  /\ resetFrom.pressed > 0
  /\ resetFrom.moved
  /\ resetFrom.dashed

\* C6: right after a reset every cell of the grid holds the symbol it held
\* when play began, that is, after the spawn digits were replaced.
C6_GridRestored ==
  lastOp = "reset" => tiles = sessionTiles

\* C7: a callback that runs while the game is paused changes no tile, not
\* the door, no actor, no plate, no registry entry, not the death counter and
\* not the won flag.
C7_PausedTickFrame ==
  [][(lastOp' = "tick" /\ paused)
       => UNCHANGED <<tiles, doorOpen, players, plates, tempPlatforms, deaths, won>>]_vars

\* A callback has run while the game was paused, not won, and an actor was
\* in mid-air.
C7_Witness ==
  /\ lastOp = "tick"
  /\ paused
  /\ ~won
  /\ \E id \in PlayerIds : ~players[id].onGround /\ players[id].vel.y > 0

\* C8: the game is paused in every state in which a dialog is open.
C8_PausedWhileModalOpen ==
  (showSettings \/ showHelp) => paused

\* C9: every actor that the last callback found in contact with a hazard is
\* at its spawn point with zero velocity; a simulated callback adds to the
\* death counter the number of actors it found in contact; every actor is
\* alive in every state.
C9_HazardRespawn ==
  /\ [](\A id \in PlayerIds : players[id].alive)
  /\ [](\A id \in hazardHit :
          /\ players[id].pos = spawns[id]
          /\ players[id].vel = [x |-> 0, y |-> 0])
  /\ [][(lastOp' = "tick" /\ ~paused /\ ~won)
          => deaths' = deaths + Cardinality(hazardHit')]_vars

\* One callback has found two actors in contact with a hazard.
C9_Witness ==
  lastOp = "tick" /\ Cardinality(hazardHit) = 2 /\ deaths >= 2

\* C10, as stated: an actor the last callback respawned is not dashing, its
\* dash-end time is reset, its air-jump budget is full and its jump lock is
\* clear.
C10_DashAndJumpCleared ==
  lastOp = "tick" =>
    \A id \in hazardHit :
      /\ ~players[id].isDashing
      /\ players[id].dashUntil = 0
      /\ players[id].airJumpsLeft = players[id].maxAirJumps
      /\ ~players[id].jumpLock

\* C10, amended: an actor the last callback respawned is not dashing, its
\* dash-end time is reset and its air-jump budget is full; the jump lock is
\* left as the jump step set it.
C10_DashCleared ==
  lastOp = "tick" =>
    \A id \in hazardHit :
      /\ ~players[id].isDashing
      /\ players[id].dashUntil = 0
      /\ players[id].airJumpsLeft = players[id].maxAirJumps

\* Wind was respawned by the last callback while the dash it had started was
\* still running.
C10_Witness ==
  /\ lastOp = "tick"
  /\ 4 \in hazardHit
  /\ players[4].dashCooldownUntil > now + DASH_COOLDOWN - DASH_DURATION

\* --------------------------------------------------------- wind dash
\* The step is a callback that simulates.
SimulatedTick == lastOp' = "tick" /\ ~paused /\ ~won

\* The step is a callback in which Wind starts a dash.
DashStart ==
  lastOp' = "tick" /\ players'[4].dashCooldownUntil # players[4].dashCooldownUntil

\* Wind's update finds a double tap of one of its keys, off cooldown.
DashDue ==
  /\ SimulatedTick
  /\ tappedKeyOf(Bindings[4], doubleTap) # ""
  /\ now' >= players[4].dashCooldownUntil

\* The vector tryStartWindDash chooses in this step.
ChosenDash == windDashStep(players[4], now', doubleTap, pressed).p.vel

\* |v| is DASH_SPEED to within a thousandth of its square; in 1/10 px per s.
DashMagnitudeOk(v) ==
  LET x == v.x \div 10
      y == v.y \div 10
      d == DASH_SPEED * 10
  IN Abs(x * x + y * y - d * d) <= (d * d) \div 1000

\* C11, as stated: a double tap found off cooldown puts Wind in the dash
\* state; Wind stays in it on every update before T + 180 ms and is out of it
\* after the first update at or after T + 180 ms; no dash starts before the
\* cooldown T + 3000 ms of the dash before it has elapsed.
C11_DashWindow ==
  /\ [][DashDue => (DashStart /\ players'[4].isDashing
                     /\ players'[4].dashUntil = now' + DASH_DURATION
                     /\ players'[4].dashCooldownUntil = now' + DASH_COOLDOWN)]_vars
  /\ [][SimulatedTick => (players'[4].isDashing => now' < players'[4].dashUntil)]_vars
  /\ [][(SimulatedTick /\ players[4].isDashing /\ now' < players[4].dashUntil)
          => players'[4].isDashing]_vars
  /\ [][DashStart => now' >= players[4].dashCooldownUntil]_vars
  /\ [](\A i \in 1..(Len(dashStarts) - 1) :
          dashStarts[i + 1] - dashStarts[i] >= DASH_COOLDOWN)

\* C11, amended: as stated, except that a hazard respawn takes Wind out of
\* the dash state at once, also within the update that started the dash; the
\* cooldown runs on through the respawn.
C11_DashWindowOrRespawn ==
  /\ [][DashDue => (/\ DashStart
                     /\ players'[4].dashCooldownUntil = now' + DASH_COOLDOWN
                     /\ \/ 4 \in hazardHit'
                        \/ /\ players'[4].isDashing
                           /\ players'[4].dashUntil = now' + DASH_DURATION)]_vars
  /\ [][SimulatedTick => (players'[4].isDashing => now' < players'[4].dashUntil)]_vars
  /\ [][(SimulatedTick /\ players[4].isDashing /\ now' < players[4].dashUntil
          /\ 4 \notin hazardHit')
          => players'[4].isDashing]_vars
  /\ [][DashStart => now' >= players[4].dashCooldownUntil]_vars
  /\ [](\A i \in 1..(Len(dashStarts) - 1) :
          dashStarts[i + 1] - dashStarts[i] >= DASH_COOLDOWN)

\* Wind has just started its second dash, after a hazard respawn.
C11_Witness ==
  /\ lastOp = "tick"
  /\ players[4].isDashing
  /\ Len(dashStarts) = 2
  /\ dashStarts[2] = now
  /\ deaths > 0

\* C12, as stated: on every update inside the dash window Wind's velocity
\* is the vector chosen at dash start, of magnitude DASH_SPEED.
C12_VelocityHeld ==
  /\ [][(DashStart /\ players'[4].isDashing)
          => (DashMagnitudeOk(ChosenDash) /\ players'[4].vel = ChosenDash)]_vars
  /\ [][(SimulatedTick /\ players[4].isDashing /\ now' < players[4].dashUntil)
          => players'[4].vel = players[4].vel]_vars

\* On one axis: the component is kept, or it is zero and the actor did not
\* travel the full step (it was stopped by a solid tile).
HeldOrStopped(v0, v1, x0, x1, dt) ==
  v1 = v0 \/ (v1 = 0 /\ x1 # x0 + Travel(v0, dt))

\* C12, amended: while Wind stays in the dash state, gravity, friction and
\* input do not alter its velocity: after every update of one dash each
\* component is that of the vector chosen at its start, of magnitude
\* DASH_SPEED, unless a collision with a solid tile on that axis has set it to
\* zero. (An update can end one dash and start the next.)
C12_VelocityHeldOrStopped ==
  /\ [][(DashStart /\ players'[4].isDashing)
          => /\ DashMagnitudeOk(ChosenDash)
             /\ HeldOrStopped(ChosenDash.x, players'[4].vel.x, players[4].pos.x,
                               players'[4].pos.x, stepOf(now', lastTime))
             /\ HeldOrStopped(ChosenDash.y, players'[4].vel.y, players[4].pos.y,
                               players'[4].pos.y, stepOf(now', lastTime))]_vars
  /\ [][(SimulatedTick /\ players[4].isDashing /\ players'[4].isDashing /\ ~DashStart)
          => /\ HeldOrStopped(players[4].vel.x, players'[4].vel.x, players[4].pos.x,
                               players'[4].pos.x, stepOf(now', lastTime))
             /\ HeldOrStopped(players[4].vel.y, players'[4].vel.y, players[4].pos.y,
                               players'[4].pos.y, stepOf(now', lastTime))]_vars

\* Wind is in the dash state, stopped by the tile on its right.
C12_Witness ==
  /\ lastOp = "tick"
  /\ players[4].isDashing
  /\ players[4].vel = [x |-> 0, y |-> 0]
  /\ players[4].pos.x > players[4].spawn.x

\* C13: the double tap a dash starts from was recorded at or after the end
\* of the cooldown of the dash before it.
C13_NoStaleDash ==
  [][DashStart
       => tapAt[tappedKeyOf(Bindings[4], doubleTap)] >= players[4].dashCooldownUntil]_vars

\* ----------------------------------------------------------------- C14
\* Earth's action key went down since Earth's previous update.
EarthEdge == Bindings[3].action \in pressed /\ ~prevActionDown[3]

\* The tick appended a registry entry.
EarthPlaced ==
  \E i \in 1..Len(tempPlatforms') :
    tempPlatforms'[i].expiresAt = now' + PLATFORM_LIFETIME

\* What the tick's expiry sweep leaves, before any actor is updated.
Swept == expireSweep(tiles, tempPlatforms, <<>>, now')

\* One of the two cells doEarthAction tries can take a platform.
EarthEligible(t, p) ==
  LET under == worldToTile(p.pos.x, p.pos.y + halfH + 4 * U)
      ahead == worldToTile(p.pos.x + p.facing * (halfW + 8 * U), p.pos.y)
  IN canPlace(t, under.tx, under.ty) \/ canPlace(t, ahead.tx, ahead.ty)

\* The tick's abilities left the swept grid and registry as they were and
\* Earth's cooldown where it was.
EarthNoEffect ==
  /\ tiles' = Swept.tiles
  /\ tempPlatforms' = Swept.temps
  /\ players'[3].abilityCooldownUntil = players[3].abilityCooldownUntil

\* C14: in runs where only Earth uses an ability, a press of Earth's action
\* while the cooldown runs changes no tile, adds no registry entry and leaves
\* the cooldown as it was; a press off cooldown that finds neither tried cell
\* eligible does the same; the cooldown becomes now + 4 s exactly in the ticks
\* that place a platform, and a platform is placed only by a press off cooldown.
C14_EarthCooldown ==
  [][SimulatedTick =>
       /\ (EarthEdge /\ now' < players[3].abilityCooldownUntil => EarthNoEffect)
       /\ (EarthEdge /\ now' >= players[3].abilityCooldownUntil
             /\ ~EarthEligible(Swept.tiles, players'[3]) => EarthNoEffect)
       /\ (EarthPlaced <=> players'[3].abilityCooldownUntil = now' + EARTH_COOLDOWN)
       /\ (~EarthPlaced => EarthNoEffect)
       /\ (EarthPlaced => EarthEdge /\ now' >= players[3].abilityCooldownUntil
                            /\ EarthEligible(Swept.tiles, players'[3]))]_vars

\* Earth pressed its action while a platform it placed keeps the cooldown
\* running.
C14_Witness ==
  /\ lastOp = "tick"
  /\ abilityUse[3] = "cooldown"
  /\ tempPlatforms # <<>>
  /\ players[3].abilityCooldownUntil > now

\* Earth pressed its action off cooldown and no cell could take a platform.
C14_FailedPress ==
  /\ lastOp = "tick"
  /\ abilityUse[3] = "failed"
  /\ players[3].abilityCooldownUntil <= now

\* ----------------------------------------------------------------- C15
\* The cells of the registry's entries, oldest first.
RegistryCells == [i \in 1..Len(tempPlatforms) |->
                    <<tempPlatforms[i].tx, tempPlatforms[i].ty>>]

\* C15: the registry never holds more than 12 entries; while nothing expires,
\* up to 12 placements in a row it holds them all in order, and after the 13th
\* it holds placements 2..13 in order and the tile of the 1st is empty.
C15_RegistryCap ==
  /\ Len(tempPlatforms) <= MAX_PLATFORMS
  /\ (Len(placements) = MAX_PLATFORMS + 1
        => /\ RegistryCells = SubSeq(placements, 2, MAX_PLATFORMS + 1)
           /\ tileAt(tiles, placements[1][1], placements[1][2]) = ".")
  /\ (Len(placements) <= MAX_PLATFORMS => RegistryCells = placements)

\* The 13th placement in a row has just been made.
C15_Witness ==
  /\ lastOp = "earth"
  /\ Len(placements) = MAX_PLATFORMS + 1
  /\ Len(tempPlatforms) = MAX_PLATFORMS

\* ----------------------------------------------------------------- C16
\* The dark holes of the grid t.
DarkHoles(t) == {c \in Cells : tileAt(t, c[1], c[2]) = "O"}

Adjacent8(c, d) == c # d /\ Abs(c[1] - d[1]) <= 1 /\ Abs(c[2] - d[2]) <= 1

\* The dark holes of t that a chain of 8-adjacent dark holes joins to S.
RECURSIVE Connected(_, _)
Connected(t, S) ==
  LET more == {c \in DarkHoles(t) \ S : \E d \in S : Adjacent8(c, d)}
  IN IF more = {} THEN S ELSE Connected(t, S \cup more)

\* The dark holes of t in the 3x3 window around the tile holding the point pos.
WindowHoles(t, pos) ==
  {c \in DarkHoles(t) : Abs(c[1] - worldToTile(pos.x, pos.y).tx) <= 1
                         /\ Abs(c[2] - worldToTile(pos.x, pos.y).ty) <= 1}

\* Water's action key went down since Water's previous update.
WaterEdge == Bindings[2].action \in pressed /\ ~prevActionDown[2]

\* The grid t1 is t0 with exactly the cells of S turned to plain water.
FloodedExactly(t0, t1, S) ==
  \A c \in Cells :
    tileAt(t1, c[1], c[2]) = IF c \in S THEN "W" ELSE tileAt(t0, c[1], c[2])

\* C16: in runs where only Water uses an ability, a tick in which Water's
\* action fires turns to plain water exactly the dark holes joined by dark
\* holes to a dark hole of the 3x3 window around Water's tile and changes no
\* other cell (so nothing at all without a dark hole in the window); a tick
\* without the action changes no cell.
C16_FloodExact ==
  [][SimulatedTick =>
       FloodedExactly(tiles, tiles',
         IF WaterEdge THEN Connected(tiles, WindowHoles(tiles, players'[2].pos))
         ELSE {})]_vars

\* Water, having flooded the two joined holes from its spawn, floods the
\* isolated hole alone from the floor.
C16_Witness ==
  /\ lastOp = "tick"
  /\ abilityUse[2] = "used"
  /\ changed = {<<12, 3>>}
  /\ tileAt(tiles, 10, 2) = "W"
  /\ tileAt(tiles, 10, 3) = "W"

\* Water flooded the two joined holes and left the isolated one.
C16_Joined ==
  /\ abilityUse[2] = "used"
  /\ changed = {<<10, 2>>, <<10, 3>>}
  /\ tileAt(tiles, 12, 3) = "O"

\* Water used its action with no dark hole in its window.
C16_NoSeed ==
  /\ abilityUse[2] = "used"
  /\ changed = {}
  /\ DarkHoles(tiles) # {}

\* ----------------------------------------------------------------- C17
\* Fire's own tile, as the call that is being made sees it.
FireTile == worldToTile(players'[1].pos.x, players'[1].pos.y)

\* The tile holding the point w/2 + 4 px ahead of Fire's centre.
FireAheadTile ==
  worldToTile(players'[1].pos.x + players'[1].facing * (halfW + 4 * U),
              players'[1].pos.y)

\* The candidates of doFireAction.
FireCandidates ==
  {<<FireAheadTile.tx, FireAheadTile.ty>>, <<FireTile.tx, FireTile.ty>>,
   <<FireTile.tx, FireTile.ty + 1>>, <<FireTile.tx, FireTile.ty - 1>>}

\* The candidates with the neighbouring tile on the facing side as the one ahead.
FireNeighbourCandidates ==
  {<<FireTile.tx + players'[1].facing, FireTile.ty>>, <<FireTile.tx, FireTile.ty>>,
   <<FireTile.tx, FireTile.ty + 1>>, <<FireTile.tx, FireTile.ty - 1>>}

Breakable(t, c) == tileAt(t, c[1], c[2]) \in {"b", "X"}

\* A Fire action with the candidate set cand: every breakable candidate is
\* empty afterwards, no other cell has changed, and the registry is the old
\* one without the entries of the broken cells.
FireBroke(cand) ==
  /\ \A c \in Cells :
       tileAt(tiles', c[1], c[2])
         = IF c \in cand /\ Breakable(tiles, c) THEN "." ELSE tileAt(tiles, c[1], c[2])
  /\ tempPlatforms'
       = SelectSeq(tempPlatforms,
                   LAMBDA tp : ~(<<tp.tx, tp.ty>> \in cand /\ Breakable(tiles, <<tp.tx, tp.ty>>)))

\* A second Fire action from where the last one was made changes nothing.
FireAgainIdle ==
  lastOp = "fire" /\ players'[1] = players[1]
    => tiles' = tiles /\ tempPlatforms' = tempPlatforms

\* C17 as stated, the tile ahead being the neighbouring tile on the facing side.
C17_FireNeighbour ==
  [][lastOp' = "fire" => FireBroke(FireNeighbourCandidates) /\ FireAgainIdle]_vars

\* C17: after a Fire action every candidate (the tile holding the point
\* w/2 + 4 px ahead of the actor's centre, the actor's own tile, the tiles
\* above and below it) that held 'b' or 'X' holds '.', no other cell has
\* changed, the registry has lost exactly the entries of the broken platforms,
\* so every entry left has its platform; a second Fire action from the same
\* position changes nothing.
C17_FireBreak ==
  /\ [][lastOp' = "fire" => FireBroke(FireCandidates) /\ FireAgainIdle]_vars
  /\ [](\A i \in 1..Len(tempPlatforms) :
          tileAt(tiles, tempPlatforms[i].tx, tempPlatforms[i].ty) = "X")

\* Fire has just broken a platform, whose entry the registry lost, and left
\* another standing.
C17_Witness ==
  /\ lastOp = "fire"
  /\ \E c \in changed : c \in {placements[i] : i \in 1..Len(placements)}
  /\ Len(tempPlatforms) < Len(placements)
  /\ tempPlatforms # <<>>

\* Fire has just acted a second time from the same position.
C17_Again ==
  /\ lastOp = "fire"
  /\ changed = {}
  /\ Len(tempPlatforms) < Len(placements)

\* ----------------------------------------------------------------- C18
\* The entries of the registry that are due at the coming tick, and the rest.
Due == SelectSeq(tempPlatforms, LAMBDA tp : tp.expiresAt <= now')
NotDue == SelectSeq(tempPlatforms, LAMBDA tp : tp.expiresAt > now')

\* The cell Earth placed a platform at in this tick, if it did.
PlacedNow ==
  {<<tempPlatforms'[i].tx, tempPlatforms'[i].ty>> :
     i \in {j \in 1..Len(tempPlatforms') :
              tempPlatforms'[j].expiresAt = now' + PLATFORM_LIFETIME}}

\* What a tick that sweeps does to the registry: the due entries are gone and
\* their platforms are empty cells (unless Earth placed a new one there in the
\* same tick), the others stay in order with their tiles, followed by what
\* Earth placed, and no entry that is left is due.
SweepDone ==
  /\ SubSeq(tempPlatforms', 1, Len(NotDue)) = NotDue
  /\ Len(tempPlatforms') = Len(NotDue) + Cardinality(PlacedNow)
  /\ \A i \in 1..Len(Due) :
       \/ tileAt(tiles', Due[i].tx, Due[i].ty)
            = (IF tileAt(tiles, Due[i].tx, Due[i].ty) = "X" THEN "."
               ELSE tileAt(tiles, Due[i].tx, Due[i].ty))
       \/ <<Due[i].tx, Due[i].ty>> \in PlacedNow
  /\ \A i \in 1..Len(NotDue) :
       tileAt(tiles', NotDue[i].tx, NotDue[i].ty)
         = tileAt(tiles, NotDue[i].tx, NotDue[i].ty)
  /\ \A i \in 1..Len(tempPlatforms') : tempPlatforms'[i].expiresAt > now'

\* Every entry expires 7000 ms after a callback: its expiry is an absolute time.
ExpiryAbsolute ==
  \A i \in 1..Len(tempPlatforms) :
    /\ tempPlatforms[i].expiresAt <= now + PLATFORM_LIFETIME
    /\ tempPlatforms[i].expiresAt > StartTime + PLATFORM_LIFETIME

\* C18 as stated: every tick that finds the game unpaused sweeps.
C18_SweepEveryUnpausedTick ==
  [][lastOp' = "tick" /\ ~paused => SweepDone]_vars

\* C18: every tick that finds the game neither paused nor won removes the
\* entries with expiry <= now, empties their tiles where they still hold 'X',
\* and keeps the others in order with their tiles; an entry's expiry is the
\* time of its placement + 7000 ms, so a platform placed at T is gone after
\* the first such tick at or after T + 7000 ms, whatever ticks, clamped steps
\* or pauses came before.
C18_SweepEverySimulatedTick ==
  /\ [][SimulatedTick => SweepDone]_vars
  /\ []ExpiryAbsolute

\* A platform has just been swept in a tick more than 7 s after the start.
C18_Witness ==
  /\ lastOp = "tick"
  /\ placements # <<>>
  /\ tempPlatforms = <<>>
  /\ changed = {placements[1]}
  /\ tileAt(tiles, placements[1][1], placements[1][2]) = "."
  /\ now >= StartTime + PLATFORM_LIFETIME

\* ----------------------------------------------------------------- C19
\* The four coloured-hole symbols and the actor each is made for.
ColoredHoles == {"f", "a", "e", "n"}
OwnerOf(ch) == CASE ch = "f" -> 1 [] ch = "a" -> 2 [] ch = "e" -> 3 [] ch = "n" -> 4

\* C19: a coloured-hole symbol is liquid and no hazard for its owner, hazard
\* and no liquid for the other three actors, each symbol having one owner; no
\* symbol is both liquid and hazard for an actor.
C19_LiquidXorHazard ==
  probe.done =>
    /\ ~(probe.liquid /\ probe.hazard)
    /\ (probe.ch \in ColoredHoles =>
          /\ probe.liquid # probe.hazard
          /\ probe.liquid = (probe.id = OwnerOf(probe.ch))
          /\ Cardinality({id \in PlayerIds : isLiquidForPlayer(probe.ch, id)}) = 1
          /\ Cardinality({id \in PlayerIds : isHazardFor(probe.ch, id)}) = 3)

\* A coloured hole has been classified for its owner.
C19_Witness ==
  /\ probe.done
  /\ probe.ch \in ColoredHoles
  /\ probe.liquid
  /\ ~probe.hazard

\* A coloured hole has been classified for an actor that is not its owner.
C19_Other ==
  /\ probe.done
  /\ probe.ch \in ColoredHoles
  /\ probe.hazard
  /\ ~probe.liquid

\* ----------------------------------------------------------------- C20
\* Coordinates around the grid, one cell beyond each side.
Outside == {c \in (-1..LevelW) \X (-1..LevelH) : c \notin Cells}

\* The cells doWaterAction reads for seeds when Water's action fires in the
\* coming tick.
WaterWindow ==
  {<<worldToTile(players'[2].pos.x, players'[2].pos.y).tx + Window3[i][1],
     worldToTile(players'[2].pos.x, players'[2].pos.y).ty + Window3[i][2]>> :
     i \in 1..Len(Window3)}

\* C20: a read outside the grid yields the wall, solid with the door open or
\* shut, and a write there leaves the grid as it is; every cell an ability
\* reads yields a symbol (shown for the seed window of Water's action).
C20_ReadsYieldSymbols ==
  /\ [](\A c \in Outside :
          /\ tileAt(tiles, c[1], c[2]) = "#"
          /\ isSolid(tileAt(tiles, c[1], c[2]), TRUE)
          /\ isSolid(tileAt(tiles, c[1], c[2]), FALSE)
          /\ setTile(tiles, c[1], c[2], "X") = tiles)
  /\ [][SimulatedTick /\ WaterEdge
         => \A c \in WaterWindow : tileAt(tiles, c[1], c[2]) # "undefined"]_vars

\* ----------------------------------------------------------------- C21
\* The symbols the grid may hold: empty, wall, poison, dark hole, water, the
\* four coloured holes, plate, door, barrier, platform, the four gates.
GridAlphabet == {".", "#", "~", "O", "W", "f", "a", "e", "n", "P", "Z", "b", "X",
                 "A", "B", "C", "D"}

\* C21: the grid has LevelH rows of LevelW symbols each, and every cell holds
\* a symbol of the grid alphabet.
C21_GridWellFormed ==
  /\ Len(tiles) = LevelH
  /\ \A y \in 1..Len(tiles) : Len(tiles[y]) = LevelW
  /\ \A c \in Cells : tileAt(tiles, c[1], c[2]) \in GridAlphabet

\* The same without the row lengths: every stored symbol is of the alphabet.
C21_StoredSymbols ==
  \A y \in 1..Len(tiles) : \A x \in 1..Len(tiles[y]) : tiles[y][x] \in GridAlphabet

\* ----------------------------------------------------------------- C22
\* The actor id as this tick's moveAndCollide receives it, when no update of
\* the tick changes a tile (no ability key is bound in the run).
EnterCollide(id) ==
  movePlayerInput(windDashStep(players[id], now', doubleTap, pressed),
                  stepOf(now', lastTime),
                  Bindings[id].left \in pressed, Bindings[id].right \in pressed,
                  Bindings[id].jump \in pressed,
                  isLiquidForPlayer(tileCharAt(tiles, players[id].pos.x, players[id].pos.y), id))

\* The x the horizontal pass of this tick's collision step of id settles on.
SettledX(id) == moveAndCollide(tiles, doorOpen', EnterCollide(id), stepOf(now', lastTime)).pos.x

\* This tick's collision step of id moves downwards into a solid tile.
HitsGround(id) ==
  LET q == EnterCollide(id)
      feet == q.pos.y + Travel(q.vel.y, stepOf(now', lastTime)) + halfH
  IN /\ q.vel.y > 0
     /\ \E sx \in {SettledX(id) - halfW + U, SettledX(id) + halfW - U} :
          isSolid(tileCharAt(tiles, sx, feet), doorOpen')

C22_LeftGround ==
  /\ lastOp = "tick"
  /\ \E id \in PlayerIds : ~players[id].onGround /\ players[id].jumpLock

\* ----------------------------------------------------------------- C23
\* The actor fields moveAndCollide assigns.
MovedFields == {"pos", "vel", "onGround", "jumpLock", "airJumpsLeft"}

\* The collision step of id in this tick leaves every other field of the actor alone.
CollideFrame(id) ==
  \A f \in DOMAIN players[id] \ MovedFields :
    moveAndCollide(tiles, doorOpen', EnterCollide(id), stepOf(now', lastTime))[f]
      = EnterCollide(id)[f]

\* C23: in a simulated tick of a run without ability keys the collision steps
\* leave every actor field but position, velocity, grounded, jump lock and
\* air-jump budget alone, the grid after the tick is the grid before it, and
\* the door flag is the one computed from the plates before the actors moved.
C23_CollideChangesNoTile ==
  [][SimulatedTick =>
       /\ \A id \in PlayerIds : CollideFrame(id)
       /\ tiles' = tiles
       /\ doorOpen' = updateDoorOpen(tiles, players)]_vars

\* Wind has walked away from its spawn and landed: its collision steps have
\* moved it and resolved a contact with the floor.
C23_Witness ==
  /\ lastOp = "tick"
  /\ players[4].onGround
  /\ players[4].pos.x # spawns[4].x
  /\ players[4].dashCooldownUntil > 0

\* ----------------------------------------------------------------- C24
\* The step the callback at now' integrates over is within [0, 1/30 s].
StepClamped == 0 <= stepOf(now', lastTime) /\ stepOf(now', lastTime) <= DT_MAX

\* Actor id ends the tick less than two tile widths from where it began it.
MovedLessThanTwoTiles(id) ==
  /\ Abs(players'[id].pos.x - players[id].pos.x) < 2 * TS
  /\ Abs(players'[id].pos.y - players[id].pos.y) < 2 * TS

\* No speed an actor can have carries it two tile widths in the longest step.
SpeedsBelowTwoTiles ==
  \A id \in PlayerIds :
    /\ Abs(players[id].vel.x) <= DASH_SPEED * U
    /\ Abs(players[id].vel.y) <= MAX_FALL * U
    /\ Travel(Abs(players[id].vel.x), DT_MAX) < 2 * TS
    /\ Travel(Abs(players[id].vel.y), DT_MAX) < 2 * TS

\* C24: whatever the gap between two callbacks, the step is within
\* [0, 1/30 s], and an update that does not respawn its actor displaces it
\* by less than two tile widths on either axis.
C24_StepAndTravelBounded ==
  /\ [][lastOp' = "tick" => StepClamped]_vars
  /\ []SpeedsBelowTwoTiles
  /\ [][SimulatedTick =>
          \A id \in PlayerIds \ hazardHit' : MovedLessThanTwoTiles(id)]_vars

\* C24 as stated: no update displaces its actor by two tile widths or more.
C24_EveryUpdateBelowTwoTiles ==
  [][SimulatedTick => \A id \in PlayerIds : MovedLessThanTwoTiles(id)]_vars

\* A stall has happened, and the last callback has moved the dashing Wind.
C24_Witness ==
  /\ lastOp = "tick"
  /\ now > StartTime + StallGap
  /\ players[4].isDashing
  /\ players[4].pos.x > spawns[4].x + TS \div 2

\* ----------------------------------------------------------------- C25
\* The platforms this tick's sweep removes.
DuePlatforms ==
  {<<Due[i].tx, Due[i].ty>> : i \in {j \in 1..Len(Due) :
                                       tileAt(tiles, Due[j].tx, Due[j].ty) = "X"}}

\* Actor id, grounded by this tick and not respawned, stands on a tile that
\* is solid in the grid the sweep left.
StandsOnSwept(id) ==
  players'[id].onGround /\ id \notin hazardHit' =>
    \E sx \in {players'[id].pos.x - halfW + U, players'[id].pos.x + halfW - U} :
      isSolid(tileCharAt(Swept.tiles, sx, players'[id].pos.y + halfH + 1), doorOpen')

\* C25 as stated: the sweep comes after the actor updates, so the cell of a
\* platform that is due in a tick is still a platform for Earth's update of
\* that tick and takes no new platform in it.
C25_SweepAfterUpdates ==
  [][SimulatedTick => DuePlatforms \cap PlacedNow = {}]_vars

\* C25: a simulated tick sweeps first, then evaluates the door from the
\* actors as they were, then updates the actors on the swept grid, then
\* evaluates the win: a press of Earth's action off cooldown places a
\* platform whenever a tried cell is eligible in the swept grid, a grounded
\* actor stands on a tile solid in the swept grid, and the win is that of
\* the updated actors and plates.
C25_SweepBeforeUpdates ==
  [][SimulatedTick =>
       /\ (EarthEdge /\ now' >= players[3].abilityCooldownUntil
             /\ EarthEligible(Swept.tiles, players'[3]) => EarthPlaced)
       /\ \A id \in PlayerIds : StandsOnSwept(id)
       /\ doorOpen' = updateDoorOpen(Swept.tiles, players)
       /\ won' = winCondition(players', plates')]_vars

\* Earth has placed a platform on the cell of its first one in the tick that
\* swept the first one: the tick left every cell as it found it.
C25_Witness ==
  /\ lastOp = "tick"
  /\ abilityUse[3] = "placed"
  /\ Len(placements) = 2
  /\ placements[1] = placements[2]
  /\ changed = {}
  /\ now < StartTime + PLATFORM_LIFETIME + LongGap

\* ----------------------------------------------------------------- C26
\* After the tick the centre tile of id or the tile below its feet is
\* hazardous for it.
InHazardAfter(id) ==
  \/ isHazardFor(tileCharAt(tiles', players'[id].pos.x, players'[id].pos.y), id)
  \/ isHazardFor(tileCharAt(tiles', players'[id].pos.x,
                            players'[id].pos.y + halfH + 2 * U), id)

\* C26: an actor whose centre tile or tile below the feet is hazardous after
\* its movement is respawned in that same update: no actor that a simulated
\* tick did not respawn ends the tick at such a position.
C26_HazardTestedAfterMove ==
  [][SimulatedTick => \A id \in PlayerIds \ hazardHit' : ~InHazardAfter(id)]_vars

\* ----------------------------------------------------------------- C27
\* The action key of id is held and was not held at the last simulated tick.
RisingEdge(id) ==
  Bindings[id].action \in pressed /\ Bindings[id].action \notin heldBefore

\* The same, or the key is held at the first simulated tick after a reset.
RisingEdgeOrReset(id) ==
  Bindings[id].action \in pressed
  /\ (Bindings[id].action \notin heldBefore \/ "r" \in heldBefore)

\* The test updatePlayer makes: justPressedAction.
justPressedAction(id) == Bindings[id].action \in pressed /\ ~prevActionDown[id]

\* The tick turned some cell into plain water: Water's ability ran.
WaterRan == \E c \in Cells : tileAt(tiles', c[1], c[2]) = "W" /\ tileAt(tiles, c[1], c[2]) # "W"

\* The dark holes next to Water are plain water after the tick.
WaterDone ==
  \A c \in WindowHoles(tiles, players'[2].pos) : tileAt(tiles', c[1], c[2]) = "W"

\* C27 as stated: an ability runs in a simulated tick only if its key is held
\* and was not held at the last simulated tick.
C27_OnlyOnRisingEdge ==
  [][SimulatedTick =>
       /\ WaterRan => RisingEdge(2)
       /\ EarthPlaced => RisingEdge(3)]_vars

\* C27: an ability runs in a simulated tick only if its key is held and
\* either was not held at the last simulated tick or the game was reset
\* since; that is the test the update makes, and when Water's key passes it
\* the holes next to Water are flooded in that tick.
C27_RisingEdgeOrReset ==
  [][SimulatedTick =>
       /\ WaterRan => RisingEdgeOrReset(2)
       /\ EarthPlaced => RisingEdgeOrReset(3)
       /\ \A id \in PlayerIds \ {4} : justPressedAction(id) <=> RisingEdgeOrReset(id)
       /\ RisingEdgeOrReset(2) => WaterDone]_vars

\* Water's key has been held over two simulated ticks in a row and Water,
\* fallen next to a dark hole the first flood did not reach, has not flooded it.
C27_Witness ==
  /\ lastOp = "tick"
  /\ ~paused
  /\ "k" \in pressed
  /\ "k" \in heldBefore
  /\ abilityUse[2] = "none"
  /\ tileAt(tiles, 10, 2) = "W"
  /\ WindowHoles(tiles, players[2].pos) # {}

\* Water's key was held through a reset and the tick after it flooded again.
C27_AfterReset ==
  /\ lastOp = "tick"
  /\ abilityUse[2] = "used"
  /\ changed # {}
  /\ keyEvents = 1

\* ----------------------------------------------------------------- C28
\* Actor id as this tick's collision step leaves it, before any respawn, in
\* a run without ability keys.
Moved(id) == moveAndCollide(tiles, doorOpen', EnterCollide(id), stepOf(now', lastTime))

\* Some actor, as moved by this tick, has its centre or its feet sample in cell k.
TouchedNow(k) == \E id \in PlayerIds : k \in TouchedTiles(Moved(id))

\* C28: in a simulated tick an unpressed plate becomes pressed exactly if
\* some actor as moved by the tick has its centre tile or its feet-sample
\* tile on it, and the press is stamped with the time of the tick; a pressed
\* plate's record is never written again before a reset, so the press happens
\* once per plate; no handler other than a tick and a reset writes a plate.
C28_PressedWhenTouched ==
  /\ [][SimulatedTick =>
          \A k \in DOMAIN plates :
            /\ k \in DOMAIN plates'
            /\ ~plates[k].pressed =>
                 /\ plates'[k].pressed <=> TouchedNow(k)
                 /\ plates'[k].pressed => plates'[k].pressTime = now'
            /\ plates[k].pressed => plates'[k] = plates[k]]_vars
  /\ [][lastOp' # "reset" /\ ~SimulatedTick => plates' = plates]_vars

\* Fire has pressed the plate under its gate with its feet sample, its
\* centre being in the tile above, and stands there in later ticks.
C28_Witness ==
  /\ lastOp = "tick"
  /\ plates[<<1, 3>>].pressed
  /\ plates[<<1, 3>>].pressTime < now
  /\ <<1, 3>> \in TouchedTiles(players[1])

\* ----------------------------------------------------------------- C29
\* Actor id as the jump step of this tick finds it: after the wind-dash step.
BeforeJump(id) == windDashStep(players[id], now', doubleTap, pressed).p

\* The conditions of a ground jump of id in this tick.
CanJump(id) ==
  /\ ~BeforeJump(id).isDashing
  /\ ~isLiquidForPlayer(tileCharAt(tiles, players[id].pos.x, players[id].pos.y), id)
  /\ players[id].onGround
  /\ Bindings[id].jump \in pressed
  /\ ~players[id].jumpLock

\* The tick launched id: the jump lock, which nothing else sets, went on.
Launched(id) == ~players[id].jumpLock /\ players'[id].jumpLock

\* The collision step of id gets the vertical velocity that gravity alone
\* (in liquid: gravity, drag and the swim stroke) makes of the old one.
FallsOn(id) ==
  EnterCollide(id).vel.y =
    verticalPhysics(BeforeJump(id), Bindings[id].jump \in pressed,
                    isLiquidForPlayer(tileCharAt(tiles, players[id].pos.x,
                                                 players[id].pos.y), id),
                    stepOf(now', lastTime)).vel.y

\* C29: a simulated tick launches an actor exactly if, at its update, it is
\* not dashing, not in liquid, grounded, holds jump and has no jump lock; the
\* launch hands the collision step the upward jump speed, and leaves the
\* actor locked and off the ground; the lock goes off only in a tick that
\* lands the actor, and while it is on the actor's vertical velocity is left
\* to gravity, so no second launch comes before the landing.
C29_GroundJump ==
  [][SimulatedTick =>
       \A id \in PlayerIds :
         /\ Launched(id) <=> CanJump(id)
         /\ Launched(id) =>
              /\ EnterCollide(id).vel.y = -JUMP_SPEED * U
              /\ ~players'[id].onGround
              /\ players'[id].vel.y \in {-JUMP_SPEED * U, 0}
         /\ players[id].jumpLock /\ ~players'[id].jumpLock => players'[id].onGround
         /\ players[id].jumpLock /\ ~BeforeJump(id).isDashing => FallsOn(id)]_vars

\* Wind, its jump key held all the time, has come down from a first jump and
\* has been launched again by the last tick.
C29_Witness ==
  /\ lastOp = "tick"
  /\ keyEvents = 1
  /\ "x" \in pressed
  /\ players[4].jumpLock
  /\ players[4].vel.y = -JUMP_SPEED * U
  /\ now > StartTime + 10 * 34

\* ----------------------------------------------------------------- C30
\* The symbols a platform can replace.
Placeable == {".", "O", "W", "f", "a", "e", "n"}

\* The cells the call turned into platforms.
NewPlatforms ==
  {c \in Cells : tileAt(tiles', c[1], c[2]) = "X" /\ tileAt(tiles, c[1], c[2]) # "X"}

\* The cell holding Earth's centre, as the call was made.
EarthCell == <<worldToTile(players'[3].pos.x, players'[3].pos.y).tx,
               worldToTile(players'[3].pos.x, players'[3].pos.y).ty>>

\* First of the cells cs (in order) that can take a platform, as a set.
FirstPlaceable(cs) ==
  IF tileAt(tiles, cs[1][1], cs[1][2]) \in Placeable THEN {cs[1]}
  ELSE IF tileAt(tiles, cs[2][1], cs[2][2]) \in Placeable THEN {cs[2]}
  ELSE {}

\* The cell below Earth's cell and the cell next to it on the side it faces.
NeighbourCells ==
  << <<EarthCell[1], EarthCell[2] + 1>>, <<EarthCell[1] + players'[3].facing, EarthCell[2]>> >>

\* The cells of the two points doEarthAction samples: 4 px below the feet and
\* 8 px ahead of the front edge.
SampledCells ==
  << <<worldToTile(players'[3].pos.x, players'[3].pos.y + halfH + 4 * U).tx,
       worldToTile(players'[3].pos.x, players'[3].pos.y + halfH + 4 * U).ty>>,
     <<worldToTile(players'[3].pos.x + players'[3].facing * (halfW + 8 * U),
                   players'[3].pos.y).tx,
       worldToTile(players'[3].pos.x + players'[3].facing * (halfW + 8 * U),
                   players'[3].pos.y).ty>> >>

\* The call turned exactly the cells of S into platforms, changed no other
\* cell, and appended one registry entry per cell of S, expiring 7 s later.
PlacedExactly(S) ==
  /\ NewPlatforms = S
  /\ S = {} => tempPlatforms' = tempPlatforms
  /\ \A c \in S :
       tempPlatforms' = Append(tempPlatforms,
                               [tx |-> c[1], ty |-> c[2],
                                expiresAt |-> now' + PLATFORM_LIFETIME])
  /\ \A c \in NewPlatforms : tileAt(tiles, c[1], c[2]) \in Placeable

\* C30 as stated: an Earth action converts the cell below Earth's cell if it
\* is eligible, otherwise the cell one step ahead of Earth's cell if that is
\* eligible, otherwise nothing.
C30_BelowThenNextCell ==
  [][lastOp' = "earth" => PlacedExactly(FirstPlaceable(NeighbourCells))]_vars

\* C30: an Earth action converts the cell of the point 4 px below the feet
\* if it is eligible, otherwise the cell of the point 8 px ahead of the front
\* edge if that is eligible, otherwise nothing; it changes no other cell,
\* appends exactly one entry expiring 7 s later for the converted cell, and
\* converts only empty, dark-hole, water and coloured-hole cells.
C30_SampledCells ==
  [][lastOp' = "earth" => PlacedExactly(FirstPlaceable(SampledCells))
                          /\ CellsChanged(tiles, tiles') = NewPlatforms]_vars

\* Earth, 5 px behind the centre of its cell with nothing eligible below, has
\* turned its own cell into a platform.
C30_Witness ==
  /\ lastOp = "earth"
  /\ changed = {<<worldToTile(players[3].pos.x, players[3].pos.y).tx,
                  worldToTile(players[3].pos.x, players[3].pos.y).ty>>}
  /\ players[3].pos.y % TS = TS \div 2
  /\ players[3].pos.x % TS # TS \div 2
  /\ Len(tempPlatforms) = 1
  /\ tempPlatforms[1].expiresAt = now + PLATFORM_LIFETIME

\* Earth has placed a platform below its cell, and one in the next cell ahead.
C30_BelowAndAhead ==
  /\ lastOp = "earth"
  /\ Len(placements) = 2
  /\ placements[1][2] = placements[2][2] + 1
  /\ placements[2][1] = worldToTile(players[3].pos.x, players[3].pos.y).tx + players[3].facing

\* ----------------------------------------------------------------- C31
\* The open intervals (lo1, hi1) and (lo2, hi2) have a point in common.
Overlap(lo1, hi1, lo2, hi2) == lo1 < hi2 /\ lo2 < hi1

\* The rectangle of actor id has inner points in common with gate cell c.
OverGate(id, c) ==
  /\ Overlap(players[id].pos.x - halfW, players[id].pos.x + halfW, c[1] * TS, (c[1] + 1) * TS)
  /\ Overlap(players[id].pos.y - halfH, players[id].pos.y + halfH, c[2] * TS, (c[2] + 1) * TS)

\* The gate cells of actor id.
GatesOf(id) == {c \in GateCells : tileAt(sessionTiles, c[1], c[2]) = GateChar(id)}

\* C31: in every state the exit-reached flag of each actor is true exactly
\* if its rectangle has inner points in common with one of its own gates.
C31_ExitReachedIffOverGate ==
  \A id \in PlayerIds : players[id].exitReached <=> \E c \in GatesOf(id) : OverGate(id, c)

\* What an actor at rest falls in its first tick.
FirstFall == Travel((GRAVITY * U * DT_MAX) \div DtPerSec, DT_MAX)

\* An actor put with its top edge 0.01 px inside its gate has fallen out of
\* it in one tick: the flag, on after the call, is off again.
C31_Witness ==
  /\ lastOp = "tick"
  /\ calls = 1
  /\ \E id \in PlayerIds : \E c \in GatesOf(id) :
       /\ ~players[id].exitReached
       /\ players[id].pos.x = c[1] * TS + TS \div 2
       /\ players[id].pos.y - halfH - FirstFall = (c[2] + 1) * TS - 1

\* An actor's rectangle ends exactly where its own gate begins: no exit.
C31_Touching ==
  /\ lastOp = "exit"
  /\ \E id \in PlayerIds : \E c \in GatesOf(id) :
       /\ players[id].pos.y + halfH = c[2] * TS
       /\ players[id].pos.x = c[1] * TS + TS \div 2
       /\ ~players[id].exitReached

\* An actor is centred on another actor's gate: no exit.
C31_OtherGate ==
  /\ lastOp = "exit"
  /\ \E id \in PlayerIds : \E c \in GateCells \ GatesOf(id) :
       /\ players[id].pos = [x |-> c[1] * TS + TS \div 2, y |-> c[2] * TS + TS \div 2]
       /\ ~players[id].exitReached

\* ----------------------------------------------------------------- C32
\* The key the dash of this step starts from.
DashKey == tappedKeyOf(Bindings[4], doubleTap)

\* The horizontal and the vertical part of the direction before normalising.
DashAcross ==
  (IF DashKey = Bindings[4].left THEN -1 ELSE IF DashKey = Bindings[4].right THEN 1 ELSE 0)
  + (IF Bindings[4].left \in pressed THEN -1 ELSE 0)
  + (IF Bindings[4].right \in pressed THEN 1 ELSE 0)

DashUp ==
  (IF DashKey = Bindings[4].jump THEN -1 ELSE 0)
  + (IF Bindings[4].jump \in pressed THEN -1 ELSE 0)

Sign(a) == IF a < 0 THEN -1 ELSE IF a > 0 THEN 1 ELSE 0

\* v points along (hx, hy), to within the rounding of the division.
Along(v, hx, hy) ==
  /\ Sign(v.x) = Sign(hx)
  /\ Sign(v.y) = Sign(hy)
  /\ Abs(v.x * hy - v.y * hx) <= Abs(hx) + Abs(hy)

\* C32: the vector a dash starts with has magnitude DASH_SPEED and points
\* along (tapped left -1, tapped right +1, left held -1, right held +1;
\* tapped jump -1, jump held -1); when both parts are zero it is DASH_SPEED
\* towards the actor's facing, with no vertical part. Wind's velocity after the
\* update is that vector, but for a component a solid tile has stopped.
C32_DashDirection ==
  [][(DashStart /\ players'[4].isDashing)
       => /\ IF DashAcross = 0 /\ DashUp = 0
               THEN ChosenDash = [x |-> players[4].facing * DASH_SPEED * U, y |-> 0]
               ELSE Along(ChosenDash, DashAcross, DashUp) /\ DashMagnitudeOk(ChosenDash)
          /\ HeldOrStopped(ChosenDash.x, players'[4].vel.x, players[4].pos.x,
                            players'[4].pos.x, stepOf(now', lastTime))
          /\ HeldOrStopped(ChosenDash.y, players'[4].vel.y, players[4].pos.y,
                            players'[4].pos.y, stepOf(now', lastTime))]_vars

\* Wind has started a dash from a double tap of left, with left released and
\* right held: the parts cancel and the dash goes where Wind faced, to the left.
C32_Witness ==
  /\ lastOp = "tick"
  /\ Len(dashStarts) = 1
  /\ dashStarts[1] = now
  /\ tapAt["z"] > 0
  /\ tapAt["c"] = 0
  /\ tapAt["x"] = 0
  /\ pressed = {"c"}
  /\ players[4].isDashing
  /\ players[4].facing = -1
  /\ players[4].vel.x \in {-(DASH_SPEED * U), 0}
  /\ players[4].vel.y = 0

\* Wind has started a dash up and to the left: left tapped and held, jump held.
C32_Diagonal ==
  /\ lastOp = "tick"
  /\ Len(dashStarts) = 1
  /\ dashStarts[1] = now
  /\ pressed = {"z", "x"}
  /\ players[4].isDashing
  /\ players[4].vel.x < 0
  /\ players[4].vel.y < 0
  /\ players[4].vel.x < 2 * players[4].vel.y + 2
  /\ players[4].vel.x > 2 * players[4].vel.y - 2

\* ----------------------------------------------------------------- C33
\* No entry of the sequence s occurs twice.
NoRepeat(s) == \A i, j \in 1..Len(s) : s[i] = s[j] => i = j

\* C33: a flood fill ends on every grid: no tile is put on the queue twice,
\* the loop makes no more iterations than tiles were put on the queue, it
\* stops with the queue empty or MAX_FILL tiles converted, and it converts no
\* more than MAX_FILL tiles and no more than the grid has dark holes.
C33_FillTerminates ==
  probe.done =>
    /\ probe.trace.tiles = probe.tiles
    /\ NoRepeat(probe.trace.enq)
    /\ probe.trace.steps <= Len(probe.trace.enq)
    /\ probe.trace.left = <<>> \/ probe.trace.converted >= MAX_FILL
    /\ probe.trace.converted <= Min(MAX_FILL, Cardinality(DarkHoles(probe.grid)))
    /\ probe.trace.converted = Cardinality(CellsChanged(probe.grid, probe.tiles))

\* A fill has converted the whole room of eight dark holes from one corner,
\* each of them queued once, and left the three holes that are not joined to it.
C33_Witness ==
  /\ probe.done
  /\ probe.at = <<3, 1>>
  /\ probe.trace.converted = 8
  /\ Len(probe.trace.enq) = 8
  /\ Cardinality(DarkHoles(probe.tiles)) = 3

\* ----------------------------------------------------------------- C34
\* The cells of the grid t that hold an earth platform.
PlatformCells(t) == {c \in Cells : tileAt(t, c[1], c[2]) = "X"}

\* C34: the registry and the platform tiles match one to one: every entry's
\* tile holds a platform, no two entries name the same tile, every platform
\* tile has an entry; and the entries' expiries do not decrease from the
\* oldest entry to the newest.
C34_RegistryMatchesPlatforms ==
  /\ \A i \in 1..Len(tempPlatforms) :
       tileAt(tiles, tempPlatforms[i].tx, tempPlatforms[i].ty) = "X"
  /\ \A i, j \in 1..Len(tempPlatforms) :
       (tempPlatforms[i].tx = tempPlatforms[j].tx /\ tempPlatforms[i].ty = tempPlatforms[j].ty)
         => i = j
  /\ \A c \in PlatformCells(tiles) :
       \E i \in 1..Len(tempPlatforms) : tempPlatforms[i].tx = c[1] /\ tempPlatforms[i].ty = c[2]
  /\ \A i, j \in 1..Len(tempPlatforms) :
       i < j => tempPlatforms[i].expiresAt <= tempPlatforms[j].expiresAt

\* Fire has just broken one platform of several: its tile is empty, its
\* entry is gone, and the others are still registered.
C34_Witness ==
  /\ lastOp = "fire"
  /\ \E i \in 1..Len(placements) :
       placements[i] \in changed /\ tileAt(tiles, placements[i][1], placements[i][2]) = "."
  /\ Len(tempPlatforms) >= 2

\* The sweep has just removed an expired platform at a callback.
C34_Swept ==
  /\ lastOp = "tick"
  /\ \E i \in 1..Len(placements) :
       placements[i] \in changed /\ tileAt(tiles, placements[i][1], placements[i][2]) = "."

\* The registry is full after an eviction.
C34_Evicted ==
  /\ lastOp = "earth"
  /\ Len(tempPlatforms) = MAX_PLATFORMS
  /\ Cardinality(changed) = 2

\* ----------------------------------------------------------------- C35
\* C35: in the runs of the game loop the registry never holds more than two
\* entries, so a placement never finds more than MAX_PLATFORMS of them: the
\* entries' expiries lie at least EARTH_COOLDOWN apart, and after a simulated
\* tick every entry's expiry is still ahead.
C35_RegistryAtMostTwo ==
  /\ Len(tempPlatforms) <= 2
  /\ Len(tempPlatforms) <= MAX_PLATFORMS
  /\ \A i, j \in 1..Len(tempPlatforms) :
       i < j => tempPlatforms[j].expiresAt - tempPlatforms[i].expiresAt >= EARTH_COOLDOWN
  /\ (lastOp = "tick" /\ ~paused /\ ~won)
       => \A i \in 1..Len(tempPlatforms) : tempPlatforms[i].expiresAt > now

\* Earth has just made its third placement, 8 s after the first: the sweep
\* of this tick has taken the first entry out and the registry holds two.
C35_Witness ==
  /\ lastOp = "tick"
  /\ Len(placements) = 3
  /\ Len(tempPlatforms) = 2
  /\ tempPlatforms[2].expiresAt = now + PLATFORM_LIFETIME
  /\ tempPlatforms[1].expiresAt > now

\* ----------------------------------------------------------------- C36
\* The symbol b may follow the symbol a in a cell within one step: a change
\* the abilities and the sweep make, or two of them in a row (a callback can
\* hold Fire's break and Earth's placement on the same cell).
TileStep(a, b) ==
  \/ a = b
  \/ a \in {"b", "X"} /\ b = "."
  \/ a = "O" /\ b = "W"
  \/ (a \in {".", "O", "W"} \/ isColoredHole(a)) /\ b = "X"
  \/ a = "b" /\ b = "X"

CountOf(t, S) == Cardinality({c \in Cells : tileAt(t, c[1], c[2]) \in S})

\* C36: in a step that is not a reset every cell keeps its symbol or
\* changes barrier -> empty, platform -> empty, dark hole -> water, or empty,
\* dark hole, water or coloured hole -> platform; the dark holes, the coloured
\* holes and the barriers do not grow in number. In every state the plate
\* tiles are the tiles of the plate records.
C36_TileChanges ==
  /\ [][lastOp' # "reset"
         => /\ \A c \in Cells : TileStep(tileAt(tiles, c[1], c[2]), tileAt(tiles', c[1], c[2]))
            /\ CountOf(tiles', {"O"}) <= CountOf(tiles, {"O"})
            /\ CountOf(tiles', {"f", "a", "e", "n"}) <= CountOf(tiles, {"f", "a", "e", "n"})
            /\ CountOf(tiles', {"b"}) <= CountOf(tiles, {"b"})]_vars
  /\ [](DOMAIN plates = {c \in Cells : tileAt(tiles, c[1], c[2]) = "P"})
  /\ [](\A c \in DOMAIN plates : plates[c].tx = c[1] /\ plates[c].ty = c[2])

\* Every kind of change has been made: the barrier is broken, a dark hole is
\* water, a platform stands where the coloured hole was.
C36_Witness ==
  /\ tileAt(tiles, 1, 4) = "."
  /\ tileAt(tiles, 10, 2) = "W"
  /\ tileAt(tiles, 4, 3) = "X"

\* A callback has swept the platform placed on the coloured hole: the cell is empty.
C36_HoleGone ==
  /\ lastOp = "tick"
  /\ tileAt(tiles, 4, 3) = "."
  /\ changed = {<<4, 3>>}

\* Earth has placed a platform on plain water.
C36_OnWater ==
  /\ lastOp = "earth"
  /\ changed = {<<10, 2>>}
  /\ tileAt(tiles, 10, 2) = "X"
  /\ tileAt(tiles, 10, 3) = "W"

\* ----------------------------------------------------------------- C37
\* C37: from a won game no step but a reset changes the grid, an actor, a
\* plate, the registry or the death counter, and no step but a reset clears
\* the won flag, whether the game is paused or not.
C37_FrozenWhileWon ==
  [][(won /\ lastOp' # "reset")
       => (UNCHANGED <<tiles, players, plates, tempPlatforms, deaths>> /\ won')]_vars

\* A callback has run on a won game that was not paused.
C37_Witness ==
  /\ lastOp = "tick"
  /\ won
  /\ ~paused

\* The closing of the last dialog has unpaused a won game.
C37_ModalUnpaused ==
  /\ lastOp = "close"
  /\ won
  /\ ~paused
  /\ modalCount = 0

\* A reset has cleared the won flag.
C37_Cleared ==
  /\ lastOp = "reset"
  /\ resetFrom.won
  /\ ~won

\* ----------------------------------------------------------------- C38
\* Actor id has held its jump key since before the callback before this one.
KeptJumpHeld(id) ==
  Bindings[id].jump \in pressed /\ lastDown[Bindings[id].jump] < lastTime

\* Actor id is in liquid at this tick's update.
InLiquidNow(id) ==
  isLiquidForPlayer(tileCharAt(tiles, players[id].pos.x, players[id].pos.y), id)

\* An actor is never both grounded and jump-locked, and no actor has an
\* air jump at its disposal.
NoLockOnGround ==
  \A id \in PlayerIds :
    /\ players[id].onGround => ~players[id].jumpLock
    /\ players[id].maxAirJumps = 0
    /\ players[id].airJumpsLeft = 0

\* C38, as stated: no actor is both grounded and jump-locked, every
\* actor's air-jump budget is 0, and an actor that has kept jump held is
\* launched by the first update after a landing.
C38_RelaunchAfterLanding ==
  /\ []NoLockOnGround
  /\ [][SimulatedTick =>
         \A id \in PlayerIds :
           (players[id].onGround /\ KeptJumpHeld(id)) => Launched(id)]_vars

\* C38, amended: the same, but the launch comes only if the jump step
\* applies to the actor at that update: it is not in liquid and, after the
\* wind-dash step of that update, not in the dash state. A tick changes an
\* airborne actor's vertical velocity by gravity only, never by an air jump.
C38_RelaunchUnlessDashOrLiquid ==
  /\ []NoLockOnGround
  /\ [][SimulatedTick =>
         \A id \in PlayerIds :
           /\ (players[id].onGround /\ KeptJumpHeld(id))
                => (Launched(id) \/ BeforeJump(id).isDashing \/ InLiquidNow(id))
           /\ (~players[id].onGround /\ ~BeforeJump(id).isDashing) => FallsOn(id)]_vars

\* Wind, its jump key held from the start, landed in the first callback and
\* was launched by the second.
C38_Witness ==
  /\ lastOp = "tick"
  /\ now = StartTime + 2 * 34
  /\ "x" \in pressed
  /\ lastDown["x"] = StartTime
  /\ players[4].jumpLock
  /\ ~players[4].onGround
  /\ ~players[4].isDashing
  /\ players[4].vel.y = -JUMP_SPEED * U

\* Wind, its jump key held from the start, landed in the first callback and
\* began a dash in the second: no launch.
C38_DashInstead ==
  /\ lastOp = "tick"
  /\ now = StartTime + 2 * 34
  /\ "x" \in pressed
  /\ lastDown["x"] = StartTime
  /\ ~players[4].jumpLock
  /\ players[4].isDashing
  /\ dashStarts = <<now>>
====
